---------------------------- MODULE Spec2Model ----------------------------
(***************************************************************************)
(* Model of the tetromino game engine (crate tetromino_core):              *)
(* piece table, bag randomizer, playfield and the Game command interface.  *)
(***************************************************************************)
EXTENDS Integers, Sequences, FiniteSets, TLC

(***************************************************************************)
(* misc.rs: Vec2I8 and Color                                               *)
(***************************************************************************)

\* Vec2::new
Vec2I8(x, y) == [x |-> x, y |-> y]

\* i8 arithmetic of a release build: two's complement, 8 bits wide
I8(v) == ((v + 128) % 256) - 128

\* impl AddAssign for Vec2 (p += t)
Vec2Add(a, b) == Vec2I8(I8(a.x + b.x), I8(a.y + b.y))

\* impl Neg for Vec2
Vec2Neg(a) == Vec2I8(I8(0 - a.x), I8(0 - a.y))

\* Color::new: a 24-bit RGB colour, packed as 0xRRGGBB
Color(r, g, b) == r * 65536 + g * 256 + b

ColorR(c) == c \div 65536
ColorG(c) == (c \div 256) % 256
ColorB(c) == c % 256

BLACK == Color(0, 0, 0)
WHITE == Color(255, 255, 255)

\* Color::is_black
is_black(c) == ColorR(c) = 0 /\ ColorG(c) = 0 /\ ColorB(c) = 0

(***************************************************************************)
(* usize: 64-bit unsigned words, kept as four 16-bit limbs (low limb       *)
(* first) so that the cast of a negative i8 and wrapping_add are exact.    *)
(***************************************************************************)
Limb == 65536

\* a small non-negative literal as usize
Usize(n) == <<n, 0, 0, 0>>

\* the cast by way of u8: a negative value zero-extended
I8AsUsize_zero_extended(v) == IF v >= 0 THEN <<v, 0, 0, 0>>
                              ELSE <<256 + v, 0, 0, 0>>

\* `v as usize` for v: i8 (sign extension)
I8AsUsize(v) == IF v >= 0 THEN <<v, 0, 0, 0>>
                ELSE <<Limb + v, Limb - 1, Limb - 1, Limb - 1>>

\* usize::wrapping_add
wrapping_add(a, b) ==
    LET s1 == a[1] + b[1]
        s2 == a[2] + b[2] + (s1 \div Limb)
        s3 == a[3] + b[3] + (s2 \div Limb)
        s4 == a[4] + b[4] + (s3 \div Limb)
    IN  <<s1 % Limb, s2 % Limb, s3 % Limb, s4 % Limb>>

\* a < n for a: usize and a small literal n
UsizeLess(a, n) == a[4] = 0 /\ a[3] = 0 /\ a[2] = 0 /\ a[1] < n

\* the array index denoted by an in-range usize
UsizeIndex(a) == a[1]

(***************************************************************************)
(* pieces/mod.rs: piece matrices                                           *)
(***************************************************************************)
PIECE_COUNT == 7

\* bits_to_matrix: bit (4x + y) of the u16 is cell [x][y]
bits_to_matrix(bits) ==
    [x \in 0..3 |-> [y \in 0..3 |-> ((bits \div (2 ^ (4 * x + y))) % 2) # 0]]

RECURSIVE SumBits(_, _)
SumBits(mat, i) ==
    IF i = 16 THEN 0
    ELSE (IF mat[i \div 4][i % 4] THEN 2 ^ i ELSE 0) + SumBits(mat, i + 1)

\* matrix_to_bits
matrix_to_bits(mat) == SumBits(mat, 0)

NoRow == [y \in 0..3 |-> FALSE]

\* PieceMatrix::new_size2 (bits: rows written as tuples, so bits[i][j] of
\* the source is bits[i+1][j+1] here)
new_size2(bits) ==
    [bits |-> matrix_to_bits(
        [x \in 0..3 |-> IF x < 2
            THEN [y \in 0..3 |-> IF y < 2 THEN bits[x + 1][y + 1] ELSE FALSE]
            ELSE NoRow]),
     size |-> 2]

\* PieceMatrix::new_size3
new_size3(bits) ==
    [bits |-> matrix_to_bits(
        [x \in 0..3 |-> IF x < 3
            THEN [y \in 0..3 |-> IF y < 3 THEN bits[x + 1][y + 1] ELSE FALSE]
            ELSE NoRow]),
     size |-> 3]

\* PieceMatrix::new_size4
new_size4(bits) ==
    [bits |-> matrix_to_bits(
        [x \in 0..3 |-> [y \in 0..3 |-> bits[x + 1][y + 1]]]),
     size |-> 4]

\* rot2 reading its last cell one column too far, outside the 2x2 box
rot2_outside_box(s) ==
    LET b == bits_to_matrix(s.bits)
    IN  new_size2(<< <<b[0][1], b[1][1]>>,
                     <<b[0][0], b[2][0]>> >>)

\* PieceMatrix::rotate_right::rot2
rot2(s) ==
    LET b == bits_to_matrix(s.bits)
    IN  new_size2(<< <<b[0][1], b[1][1]>>,
                     <<b[0][0], b[0][1]>> >>)

\* rot3 turning the matrix counter-clockwise
rot3_counterclockwise(s) ==
    LET b == bits_to_matrix(s.bits)
    IN  new_size3(<< <<b[2][0], b[1][0], b[0][0]>>,
                     <<b[2][1], b[1][1], b[0][1]>>,
                     <<b[2][2], b[1][2], b[0][2]>> >>)

\* PieceMatrix::rotate_right::rot3
rot3(s) ==
    LET b == bits_to_matrix(s.bits)
    IN  new_size3(<< <<b[0][2], b[1][2], b[2][2]>>,
                     <<b[0][1], b[1][1], b[2][1]>>,
                     <<b[0][0], b[1][0], b[2][0]>> >>)

\* PieceMatrix::rotate_right::rot4
rot4(s) ==
    LET b == bits_to_matrix(s.bits)
    IN  new_size4(<< <<b[0][3], b[1][3], b[2][3], b[3][3]>>,
                     <<b[0][2], b[1][2], b[2][2], b[3][2]>>,
                     <<b[0][1], b[1][1], b[2][1], b[3][1]>>,
                     <<b[0][0], b[1][0], b[2][0], b[3][0]>> >>)

\* PieceMatrix::rotate_right
PieceMatrix_rotate_right(s) ==
    CASE s.size = 2 -> rot2(s)
      [] s.size = 3 -> rot3(s)
      [] s.size = 4 -> rot4(s)
      [] OTHER -> s

\* PieceData::new: states 1..3 are successive right rotations of the base,
\* each paired with entry i of the kick table
PieceData_new(base, kick_tests, color) ==
    LET m1 == PieceMatrix_rotate_right(base)
        m2 == PieceMatrix_rotate_right(m1)
        m3 == PieceMatrix_rotate_right(m2)
    IN  [states |-> [i \in 0..3 |->
            [matrix |-> CASE i = 0 -> base [] i = 1 -> m1
                          [] i = 2 -> m2 [] OTHER -> m3,
             kick_tests |-> kick_tests[i + 1]]],
         color |-> color]

(***************************************************************************)
(* pieces/pieces_def.rs: kick tables and the seven pieces                  *)
(***************************************************************************)
create_jlstz_kick_tests ==
    << << Vec2I8(-1, 0), Vec2I8(-1, -1), Vec2I8(0, 2),  Vec2I8(-1, 2) >>,
       << Vec2I8(1, 0),  Vec2I8(1, 1),   Vec2I8(0, -2), Vec2I8(1, -2) >>,
       << Vec2I8(1, 0),  Vec2I8(1, -1),  Vec2I8(0, 2),  Vec2I8(1, 2)  >>,
       << Vec2I8(-1, 0), Vec2I8(-1, 1),  Vec2I8(0, -2), Vec2I8(-1, 2) >> >>

\* the I table with the second and third kick of state 0 in the other order
create_i_kick_tests_swapped ==
    << << Vec2I8(-2, 0), Vec2I8(-2, 1), Vec2I8(1, 0),   Vec2I8(1, -2)  >>,
       << Vec2I8(-1, 0), Vec2I8(2, 0),  Vec2I8(-1, -2), Vec2I8(2, 1)   >>,
       << Vec2I8(2, 0),  Vec2I8(-1, 0), Vec2I8(2, -1),  Vec2I8(-1, 2)  >>,
       << Vec2I8(1, 0),  Vec2I8(-2, 0), Vec2I8(1, 1),   Vec2I8(-2, -1) >> >>

create_i_kick_tests ==
    << << Vec2I8(-2, 0), Vec2I8(1, 0),  Vec2I8(-2, 1),  Vec2I8(1, -2)  >>,
       << Vec2I8(-1, 0), Vec2I8(2, 0),  Vec2I8(-1, -2), Vec2I8(2, 1)   >>,
       << Vec2I8(2, 0),  Vec2I8(-1, 0), Vec2I8(2, -1),  Vec2I8(-1, 2)  >>,
       << Vec2I8(1, 0),  Vec2I8(-2, 0), Vec2I8(1, 1),   Vec2I8(-2, -1) >> >>

\* the O piece's table: [[Vec2I8::new(0, 0); 4]; 4]
o_kick_tests ==
    [i \in 1..4 |-> [j \in 1..4 |-> Vec2I8(0, 0)]]

\* create_all_pieces, indexed 0..6 as the source array: I, J, L, O, S, T, Z
create_all_pieces ==
    [k \in 0..(PIECE_COUNT - 1) |->
      CASE k = 0 -> PieceData_new(
                new_size4([i \in 1..4 |-> <<FALSE, TRUE, FALSE, FALSE>>]),
                create_i_kick_tests, Color(0, 240, 240))
        [] k = 1 -> PieceData_new(
                new_size3(<< <<TRUE, TRUE, FALSE>>,
                             <<FALSE, TRUE, FALSE>>,
                             <<FALSE, TRUE, FALSE>> >>),
                create_jlstz_kick_tests, Color(0, 0, 240))
        [] k = 2 -> PieceData_new(
                new_size3(<< <<FALSE, TRUE, FALSE>>,
                             <<FALSE, TRUE, FALSE>>,
                             <<TRUE, TRUE, FALSE>> >>),
                create_jlstz_kick_tests, Color(240, 160, 0))
        [] k = 3 -> PieceData_new(
                new_size2(<< <<TRUE, TRUE>>, <<TRUE, TRUE>> >>),
                o_kick_tests, Color(240, 240, 0))
        [] k = 4 -> PieceData_new(
                new_size3(<< <<FALSE, TRUE, FALSE>>,
                             <<TRUE, TRUE, FALSE>>,
                             <<TRUE, FALSE, FALSE>> >>),
                create_jlstz_kick_tests, Color(0, 240, 0))
        [] k = 5 -> PieceData_new(
                new_size3(<< <<FALSE, TRUE, FALSE>>,
                             <<TRUE, TRUE, FALSE>>,
                             <<FALSE, TRUE, FALSE>> >>),
                create_jlstz_kick_tests, Color(160, 0, 240))
        [] OTHER -> PieceData_new(
                new_size3(<< <<TRUE, FALSE, FALSE>>,
                             <<TRUE, TRUE, FALSE>>,
                             <<FALSE, TRUE, FALSE>> >>),
                create_jlstz_kick_tests, Color(240, 0, 0))]

\* RandomGenerator.pieces (Game.rng.pieces), the piece table: set by
\* RandomGenerator::new to create_all_pieces() and never written afterwards
VARIABLE pieces

\* A PieceData value is held in the state by its index k in the table (the
\* seven entries differ in colour, so the index identifies the value).
\* PieceData::state(index).kick_tests()
kick_tests(k, index) == pieces[k].states[index].kick_tests

\* PieceData::color
color(k) == pieces[k].color

\* PieceData::size
size(k) == pieces[k].states[0].matrix.size

(***************************************************************************)
(* game.rs: constants                                                      *)
(***************************************************************************)
PLAYFIELD_WIDTH == 10
PLAYFIELD_HEIGHT == 20
TRUE_PLAYFIELD_HEIGHT == PLAYFIELD_HEIGHT * 2
NEXT_SIZE == 8

\* Option<T>: None is the empty sequence, Some(v) the one-element sequence
None == <<>>
Some(v) == <<v>>

(***************************************************************************)
(* game.rs: Playfield.  fill_state[y][x], y = 0 is the top row.            *)
(***************************************************************************)
\* Playfield::new
Playfield_new ==
    [y \in 0..(TRUE_PLAYFIELD_HEIGHT - 1) |->
        [x \in 0..(PLAYFIELD_WIDTH - 1) |-> BLACK]]

\* Playfield::is_in_bounds (x, y: usize)
is_in_bounds(x, y) ==
    UsizeLess(x, PLAYFIELD_WIDTH) /\ UsizeLess(y, TRUE_PLAYFIELD_HEIGHT)

\* get_tile reading a column out of range as empty tiles: no side walls
get_tile_open_sides(fill_state, x, y) ==
    IF is_in_bounds(x, y)
    THEN fill_state[UsizeIndex(y)][UsizeIndex(x)]
    ELSE IF UsizeLess(y, TRUE_PLAYFIELD_HEIGHT) THEN BLACK ELSE WHITE

\* Playfield::get_tile
get_tile(fill_state, x, y) ==
    IF is_in_bounds(x, y)
    THEN fill_state[UsizeIndex(y)][UsizeIndex(x)]
    ELSE WHITE

\* Playfield::has_tile
has_tile(fill_state, x, y) == ~is_black(get_tile(fill_state, x, y))

\* ActivePiece::new
ActivePiece_new(piece_data, spawn_pos) ==
    [piece_data |-> piece_data, rotation |-> 0, position |-> spawn_pos]

\* ActivePiece::matrix: piece_data.state(rotation).matrix(), which is
\* bits_to_matrix of the state's bits
matrix(piece) ==
    bits_to_matrix(
        pieces[piece.piece_data].states[piece.rotation].matrix.bits)

\* Playfield::has_overlap
has_overlap(fill_state, piece) ==
    LET mat == matrix(piece)
        x_base == I8AsUsize(piece.position.x)
        y_base == I8AsUsize(piece.position.y)
    IN  \E x \in 0..3 : \E y \in 0..3 :
            /\ mat[x][y]
            /\ has_tile(fill_state, wrapping_add(Usize(x), x_base),
                                    wrapping_add(Usize(y), y_base))

RECURSIVE copy_loop_transposed(_, _, _)
\* the loops of copy_in_piece reading the matrix as mat[y][x]
copy_loop_transposed(fill_state, piece, i) ==
    IF i = 16 THEN fill_state
    ELSE LET x == i \div 4
             y == i % 4
             tx == wrapping_add(Usize(x), I8AsUsize(piece.position.x))
             ty == wrapping_add(Usize(y), I8AsUsize(piece.position.y))
         IN  IF matrix(piece)[y][x] /\ is_in_bounds(tx, ty)
             THEN copy_loop_transposed([fill_state EXCEPT
                                ![UsizeIndex(ty)][UsizeIndex(tx)] =
                                    color(piece.piece_data)],
                            piece, i + 1)
             ELSE copy_loop_transposed(fill_state, piece, i + 1)

RECURSIVE copy_loop(_, _, _)
\* the loops `for x in 0..4 { for y in 0..4 {..} }` of copy_in_piece, cell
\* i = 4x + y; get_tile_mut yields None for a coordinate out of bounds and
\* the cell is then skipped
copy_loop(fill_state, piece, i) ==
    IF i = 16 THEN fill_state
    ELSE LET x == i \div 4
             y == i % 4
             tx == wrapping_add(Usize(x), I8AsUsize(piece.position.x))
             ty == wrapping_add(Usize(y), I8AsUsize(piece.position.y))
         IN  IF matrix(piece)[x][y] /\ is_in_bounds(tx, ty)
             THEN copy_loop([fill_state EXCEPT
                                ![UsizeIndex(ty)][UsizeIndex(tx)] =
                                    color(piece.piece_data)],
                            piece, i + 1)
             ELSE copy_loop(fill_state, piece, i + 1)

\* Playfield::copy_in_piece
copy_in_piece(fill_state, piece) == copy_loop(fill_state, piece, 0)

\* the row test satisfied by a single tile in the row
row_full_any(fill_state, y) ==
    \E x \in 0..(PLAYFIELD_WIDTH - 1) : has_tile(fill_state, Usize(x), Usize(y))

\* the row test of clear_completed_lines
row_full(fill_state, y) ==
    \A x \in 0..(PLAYFIELD_WIDTH - 1) : has_tile(fill_state, Usize(x), Usize(y))

RECURSIVE shift_loop_ascending(_, _)
\* the shift with yc running upwards from 1 to y, where the code runs it
\* downwards: every row takes the row above it as already overwritten
shift_loop_ascending(fill_state, yc) ==
    IF yc < 1 THEN fill_state
    ELSE LET below == shift_loop_ascending(fill_state, yc - 1)
         IN  [below EXCEPT ![yc] = below[yc - 1]]

RECURSIVE shift_loop(_, _)
\* `for yc in (1..=y).rev() { fill_state[yc] = fill_state[yc - 1] }`
shift_loop(fill_state, yc) ==
    IF yc < 1 THEN fill_state
    ELSE shift_loop([fill_state EXCEPT ![yc] = fill_state[yc - 1]], yc - 1)

\* the shift leaving the out-of-bounds colour in the vacated top row
shift_down_white(fill_state, y) ==
    [shift_loop(fill_state, y) EXCEPT
        ![0] = [x \in 0..(PLAYFIELD_WIDTH - 1) |-> WHITE]]

\* the shift of clear_completed_lines: rows 1..y take the row above, then
\* row 0 becomes empty
shift_down(fill_state, y) ==
    [shift_loop(fill_state, y) EXCEPT
        ![0] = [x \in 0..(PLAYFIELD_WIDTH - 1) |-> BLACK]]

RECURSIVE clear_loop_noshift(_, _, _)
\* the loop of clear_completed_lines counting the full rows and leaving them
\* where they are
clear_loop_noshift(fill_state, y, cnt) ==
    IF y = TRUE_PLAYFIELD_HEIGHT
    THEN [fill_state |-> fill_state, cnt |-> cnt]
    ELSE IF row_full(fill_state, y)
         THEN clear_loop_noshift(fill_state, y + 1, cnt + 1)
         ELSE clear_loop_noshift(fill_state, y + 1, cnt)

RECURSIVE clear_loop(_, _, _)
clear_loop(fill_state, y, cnt) ==
    IF y = TRUE_PLAYFIELD_HEIGHT
    THEN [fill_state |-> fill_state, cnt |-> cnt]
    ELSE IF row_full(fill_state, y)
         THEN clear_loop(shift_down(fill_state, y), y + 1, cnt + 1)
         ELSE clear_loop(fill_state, y + 1, cnt)

\* Playfield::clear_completed_lines: the new grid and the returned count
Playfield_clear_completed_lines(fill_state) == clear_loop(fill_state, 0, 0)

(***************************************************************************)
(* game.rs: RandomGenerator.  The StdRng is a supply of entropy: a natural *)
(* number from which gen_range(0..n) takes the digit `rng % n` and leaves  *)
(* `rng \div n`; every finite sequence of outcomes is the digits of one    *)
(* such number.                                                            *)
(***************************************************************************)
\* Rng::gen_range(0..n)
gen_range(rng, n) == [value |-> rng % n, rng |-> rng \div n]

\* Vec::remove(i) on a sequence (i counted from 0)
Remove(seq, i) == [j \in 1..(Len(seq) - 1) |->
                      IF j <= i THEN seq[j] ELSE seq[j + 1]]

\* RandomGenerator::new.  `drawn` is a history field: the indices returned
\* by next_piece so far, oldest first.
RandomGenerator_new(seed) ==
    [rng |-> seed,
     bag |-> [i \in 0..(PIECE_COUNT - 1) |-> 0],
     bag_left |-> 0,
     drawn |-> <<>>]

RECURSIVE refill_loop_noremove(_, _, _, _)
\* the refill loop reading new_bag[..] where the code removes the entry
refill_loop_noremove(i, bag, new_bag, rng) ==
    IF i = PIECE_COUNT THEN [bag |-> bag, rng |-> rng]
    ELSE LET g == gen_range(rng, Len(new_bag))
         IN  refill_loop_noremove(i + 1,
                         [bag EXCEPT ![i] = new_bag[g.value + 1]],
                         new_bag,
                         g.rng)

RECURSIVE refill_loop(_, _, _, _)
\* the loop `for i in 0..new_bag.len()` of next_piece.  The range is
\* evaluated once, before the loop: i runs over 0..6.
refill_loop(i, bag, new_bag, rng) ==
    IF i = PIECE_COUNT THEN [bag |-> bag, rng |-> rng]
    ELSE LET g == gen_range(rng, Len(new_bag))
         IN  refill_loop(i + 1,
                         [bag EXCEPT ![i] = new_bag[g.value + 1]],
                         Remove(new_bag, g.value),
                         g.rng)

\* next_piece refilling the bag while one entry is left, so that bag[0] is
\* never handed out
next_piece_refill_early(gen) ==
    IF gen.bag_left > 1
    THEN [gen |-> [gen EXCEPT !.bag_left = gen.bag_left - 1,
                              !.drawn = Append(@, gen.bag[gen.bag_left - 1])],
          piece |-> gen.bag[gen.bag_left - 1]]
    ELSE LET r == refill_loop(0, gen.bag, <<0, 1, 2, 3, 4, 5, 6>>, gen.rng)
         IN  [gen |-> [rng |-> r.rng, bag |-> r.bag, bag_left |-> 6,
                       drawn |-> Append(gen.drawn, r.bag[6])],
              piece |-> r.bag[6]]

\* next_piece leaving bag_left at 7 after a refill, so that bag[6] is
\* handed out again
next_piece_bag_left_7(gen) ==
    IF gen.bag_left > 0
    THEN [gen |-> [gen EXCEPT !.bag_left = gen.bag_left - 1,
                              !.drawn = Append(@, gen.bag[gen.bag_left - 1])],
          piece |-> gen.bag[gen.bag_left - 1]]
    ELSE LET r == refill_loop(0, gen.bag, <<0, 1, 2, 3, 4, 5, 6>>, gen.rng)
         IN  [gen |-> [rng |-> r.rng, bag |-> r.bag, bag_left |-> 7,
                       drawn |-> Append(gen.drawn, r.bag[6])],
              piece |-> r.bag[6]]

\* RandomGenerator::next_piece: the generator afterwards and the index of
\* the piece returned
next_piece(gen) ==
    IF gen.bag_left > 0
    THEN [gen |-> [gen EXCEPT !.bag_left = gen.bag_left - 1,
                              !.drawn = Append(@, gen.bag[gen.bag_left - 1])],
          piece |-> gen.bag[gen.bag_left - 1]]
    ELSE LET r == refill_loop(0, gen.bag, <<0, 1, 2, 3, 4, 5, 6>>, gen.rng)
         IN  [gen |-> [rng |-> r.rng, bag |-> r.bag, bag_left |-> 6,
                       drawn |-> Append(gen.drawn, r.bag[6])],
              piece |-> r.bag[6]]

(***************************************************************************)
(* game.rs: Game.  A game value g is the record of the struct's fields;    *)
(* `panicked` records that a call aborted in a panic.  Every method is an  *)
(* operator from the game before the call to the game after it and the     *)
(* value returned.                                                         *)
(***************************************************************************)

\* the pose (position, rotation) of the active piece, the two places the
\* closure handed to try_move may write
Pose(g) == [position |-> g.active_piece.position,
            rotation |-> g.active_piece.rotation]

\* try_move with the rollback of the position forgotten
try_move_norollback(g, new) ==
    LET old == Pose(g)
        moved == [g.active_piece EXCEPT !.position = new.position,
                                        !.rotation = new.rotation]
    IN  IF has_overlap(g.playfield, moved)
        THEN [game |-> [g EXCEPT !.active_piece =
                          [moved EXCEPT !.rotation = old.rotation]],
              ok |-> FALSE]
        ELSE [game |-> [g EXCEPT !.active_piece = moved], ok |-> TRUE]

\* Game::try_move: `new` is the pose the closure `change` assigns when it is
\* applied to the pose of g
try_move(g, new) ==
    LET old == Pose(g)
        moved == [g.active_piece EXCEPT !.position = new.position,
                                        !.rotation = new.rotation]
    IN  IF has_overlap(g.playfield, moved)
        THEN [game |-> [g EXCEPT !.active_piece =
                          [moved EXCEPT !.position = old.position,
                                        !.rotation = old.rotation]],
              ok |-> FALSE]
        ELSE [game |-> [g EXCEPT !.active_piece = moved], ok |-> TRUE]

\* Game::move_left: |p, _| p.x -= 1
move_left(g) == try_move(g, [Pose(g) EXCEPT !.position.x = I8(@ - 1)])

\* Game::move_right: |p, _| p.x += 1
move_right(g) == try_move(g, [Pose(g) EXCEPT !.position.x = I8(@ + 1)])

\* move_down stamping the piece into the playfield when it cannot move
move_down_locks(g) ==
    LET r == try_move(g, [Pose(g) EXCEPT !.position.y = I8(@ + 1)])
    IN  IF r.ok THEN r
        ELSE [game |-> [r.game EXCEPT !.playfield =
                           copy_in_piece(@, r.game.active_piece)],
              ok |-> FALSE]

\* move_down stepping two rows at once
move_down_two_rows(g) ==
    try_move(g, [Pose(g) EXCEPT !.position.y = I8(@ + 2)])

\* Game::move_down: |p, _| p.y += 1
move_down(g) == try_move(g, [Pose(g) EXCEPT !.position.y = I8(@ + 1)])

RECURSIVE kicks_loop(_, _, _, _)
\* the loop of try_move_kicks over kick_tests[i], i = 1..4; the closure is
\* |p, r| { *r = trg_rot; *p += t }
kicks_loop(g, trg_rot, kicks, i) ==
    IF i > 4 THEN [game |-> g, ok |-> FALSE]
    ELSE LET r == try_move(g, [position |-> Vec2Add(Pose(g).position, kicks[i]),
                               rotation |-> trg_rot])
         IN  IF r.ok THEN r ELSE kicks_loop(r.game, trg_rot, kicks, i + 1)

\* Game::try_move_kicks
try_move_kicks(g, trg_rot, kicks) == kicks_loop(g, trg_rot, kicks, 1)

\* neg_kicks
neg_kicks(src) ==
    <<Vec2Neg(src[1]), Vec2Neg(src[2]), Vec2Neg(src[3]), Vec2Neg(src[4])>>

\* rotate_left taking its kicks from the current state's table
rotate_left_cur_kicks(g) ==
    LET cur_rot == g.active_piece.rotation
        trg_rot == IF cur_rot = 0 THEN 3 ELSE cur_rot - 1
        kicks == neg_kicks(kick_tests(g.active_piece.piece_data, cur_rot))
        bare == try_move(g, [Pose(g) EXCEPT !.rotation = trg_rot])
    IN  IF bare.ok THEN bare ELSE try_move_kicks(bare.game, trg_rot, kicks)

\* Game::rotate_left
rotate_left(g) ==
    LET cur_rot == g.active_piece.rotation
        trg_rot == IF cur_rot = 0 THEN 3 ELSE cur_rot - 1
        kicks == neg_kicks(kick_tests(g.active_piece.piece_data, trg_rot))
        bare == try_move(g, [Pose(g) EXCEPT !.rotation = trg_rot])
    IN  IF bare.ok THEN bare ELSE try_move_kicks(bare.game, trg_rot, kicks)

\* rotate_right taking its kicks from the target state's table
rotate_right_trg_kicks(g) ==
    LET cur_rot == g.active_piece.rotation
        trg_rot == IF cur_rot = 3 THEN 0 ELSE cur_rot + 1
        kicks == kick_tests(g.active_piece.piece_data, trg_rot)
        bare == try_move(g, [Pose(g) EXCEPT !.rotation = trg_rot])
    IN  IF bare.ok THEN bare ELSE try_move_kicks(bare.game, trg_rot, kicks)

\* Game::rotate_right
rotate_right(g) ==
    LET cur_rot == g.active_piece.rotation
        trg_rot == IF cur_rot = 3 THEN 0 ELSE cur_rot + 1
        kicks == kick_tests(g.active_piece.piece_data, cur_rot)
        bare == try_move(g, [Pose(g) EXCEPT !.rotation = trg_rot])
    IN  IF bare.ok THEN bare ELSE try_move_kicks(bare.game, trg_rot, kicks)

\* quick_drop making a single move_down
quick_drop_once(g) == move_down(g).game

RECURSIVE quick_drop(_)
\* Game::quick_drop: while self.move_down() {}
quick_drop(g) ==
    LET r == move_down(g)
    IN  IF r.ok THEN quick_drop(r.game) ELSE r.game

\* pop_next_piece taking the newest entry of the queue (pop_back)
pop_next_piece_back(g) ==
    IF g.next_pieces = <<>>
    THEN [game |-> [g EXCEPT !.panicked = TRUE], piece |-> 0]
    ELSE LET n == next_piece(g.rng)
             q == g.next_pieces
         IN  [game |-> [g EXCEPT !.next_pieces =
                                     Append(SubSeq(q, 1, Len(q) - 1), n.piece),
                                 !.rng = n.gen],
              piece |-> q[Len(q)]]

\* pop_next_piece without the push_back of a fresh draw
pop_next_piece_nopush(g) ==
    IF g.next_pieces = <<>>
    THEN [game |-> [g EXCEPT !.panicked = TRUE], piece |-> 0]
    ELSE [game |-> [g EXCEPT !.next_pieces = Tail(@)],
          piece |-> Head(g.next_pieces)]

\* Game::pop_next_piece.  pop_front().expect(..) panics on an empty queue.
pop_next_piece(g) ==
    IF g.next_pieces = <<>>
    THEN [game |-> [g EXCEPT !.panicked = TRUE], piece |-> 0]
    ELSE LET n == next_piece(g.rng)
         IN  [game |-> [g EXCEPT !.next_pieces = Append(Tail(@), n.piece),
                                 !.rng = n.gen],
              piece |-> Head(g.next_pieces)]

\* spawn_new_piece without the move_down that follows the placement
spawn_new_piece_nodrop(g, new_piece) ==
    LET new_piece_size == size(new_piece)
        spawn_pos == IF new_piece_size = 2
                     THEN Vec2I8(4, PLAYFIELD_HEIGHT - 1)
                     ELSE Vec2I8(3, PLAYFIELD_HEIGHT - 1)
        g1 == [g EXCEPT !.active_piece = ActivePiece_new(new_piece, spawn_pos),
                        !.panicked = @ \/ new_piece_size \notin {2, 3, 4}]
    IN  [game |-> g1, ok |-> ~has_overlap(g1.playfield, g1.active_piece)]

\* spawn_new_piece taking the spawn column from the state of the StdRng
spawn_new_piece_rng_column(g, new_piece) ==
    LET new_piece_size == size(new_piece)
        spawn_pos == Vec2I8(3 + (g.rng.rng % 2), PLAYFIELD_HEIGHT - 1)
        g1 == [g EXCEPT !.active_piece = ActivePiece_new(new_piece, spawn_pos),
                        !.panicked = @ \/ new_piece_size \notin {2, 3, 4}]
        g2 == IF new_piece_size < 4 THEN move_down(g1).game ELSE g1
    IN  [game |-> g2, ok |-> ~has_overlap(g2.playfield, g2.active_piece)]

\* spawn_new_piece reporting the overlap of the pose before the move down
spawn_new_piece_early_result(g, new_piece) ==
    LET new_piece_size == size(new_piece)
        spawn_pos == IF new_piece_size = 2
                     THEN Vec2I8(4, PLAYFIELD_HEIGHT - 1)
                     ELSE Vec2I8(3, PLAYFIELD_HEIGHT - 1)
        g1 == [g EXCEPT !.active_piece = ActivePiece_new(new_piece, spawn_pos),
                        !.panicked = @ \/ new_piece_size \notin {2, 3, 4}]
        g2 == IF new_piece_size < 4 THEN move_down(g1).game ELSE g1
    IN  [game |-> g2, ok |-> ~has_overlap(g1.playfield, g1.active_piece)]

\* Game::spawn_new_piece
spawn_new_piece(g, new_piece) ==
    LET new_piece_size == size(new_piece)
        spawn_pos == IF new_piece_size = 2
                     THEN Vec2I8(4, PLAYFIELD_HEIGHT - 1)
                     ELSE Vec2I8(3, PLAYFIELD_HEIGHT - 1)
        g1 == [g EXCEPT !.active_piece = ActivePiece_new(new_piece, spawn_pos),
                        !.panicked = @ \/ new_piece_size \notin {2, 3, 4}]
        g2 == IF new_piece_size < 4 THEN move_down(g1).game ELSE g1
    IN  [game |-> g2, ok |-> ~has_overlap(g2.playfield, g2.active_piece)]

\* hold_piece taking the new piece from the queue whatever the slot holds
hold_piece_always_pops(g) ==
    IF g.used_hold THEN [game |-> g, ok |-> FALSE]
    ELSE LET to_hold == Some(g.active_piece.piece_data)
             taken == [g EXCEPT !.held_piece = None]
             p == pop_next_piece(taken)
             spawned == IF p.game.panicked THEN p.game
                        ELSE spawn_new_piece(p.game, p.piece).game
         IN  IF spawned.panicked THEN [game |-> spawned, ok |-> FALSE]
             ELSE [game |-> [spawned EXCEPT !.used_hold = TRUE,
                                            !.held_piece = to_hold],
                   ok |-> TRUE]

\* hold_piece without `self.used_hold = true`
hold_piece_noflag(g) ==
    IF g.used_hold THEN [game |-> g, ok |-> FALSE]
    ELSE LET to_hold == Some(g.active_piece.piece_data)
             taken == [g EXCEPT !.held_piece = None]
             spawned ==
                IF g.held_piece # None
                THEN spawn_new_piece(taken, g.held_piece[1]).game
                ELSE LET p == pop_next_piece(taken)
                     IN  IF p.game.panicked THEN p.game
                         ELSE spawn_new_piece(p.game, p.piece).game
         IN  IF spawned.panicked THEN [game |-> spawned, ok |-> FALSE]
             ELSE [game |-> [spawned EXCEPT !.held_piece = to_hold],
                   ok |-> TRUE]

\* hold_piece leaving the slot empty when it swaps the held piece in
hold_piece_slot_taken(g) ==
    IF g.used_hold THEN [game |-> g, ok |-> FALSE]
    ELSE LET to_hold == Some(g.active_piece.piece_data)
             taken == [g EXCEPT !.held_piece = None]
             spawned ==
                IF g.held_piece # None
                THEN spawn_new_piece(taken, g.held_piece[1]).game
                ELSE LET p == pop_next_piece(taken)
                     IN  IF p.game.panicked THEN p.game
                         ELSE spawn_new_piece(p.game, p.piece).game
         IN  IF spawned.panicked THEN [game |-> spawned, ok |-> FALSE]
             ELSE [game |-> [spawned EXCEPT
                                !.used_hold = TRUE,
                                !.held_piece = IF g.held_piece # None
                                               THEN None ELSE to_hold],
                   ok |-> TRUE]

\* Game::hold_piece
hold_piece(g) ==
    IF g.used_hold THEN [game |-> g, ok |-> FALSE]
    ELSE LET to_hold == Some(g.active_piece.piece_data)
             taken == [g EXCEPT !.held_piece = None]
             spawned ==
                IF g.held_piece # None
                THEN spawn_new_piece(taken, g.held_piece[1]).game
                ELSE LET p == pop_next_piece(taken)
                     IN  IF p.game.panicked THEN p.game
                         ELSE spawn_new_piece(p.game, p.piece).game
         IN  IF spawned.panicked THEN [game |-> spawned, ok |-> FALSE]
             ELSE [game |-> [spawned EXCEPT !.used_hold = TRUE,
                                            !.held_piece = to_hold],
                   ok |-> TRUE]

\* lock_down_piece without the copy into the playfield
lock_down_piece_nocopy(g) == g

\* Game::lock_down_piece
lock_down_piece(g) ==
    [g EXCEPT !.playfield = copy_in_piece(g.playfield, g.active_piece)]

\* finish_piece_turn spawning the kind it has just locked, not the popped one
finish_piece_turn_respawn(g) ==
    LET locked == lock_down_piece(g)
        p == pop_next_piece(locked)
        g2 == [p.game EXCEPT !.used_hold = FALSE]
        c == Playfield_clear_completed_lines(g2.playfield)
        g3 == [g2 EXCEPT !.playfield = c.fill_state]
        s == spawn_new_piece(g3, g.active_piece.piece_data)
    IN  IF p.game.panicked THEN [game |-> p.game, value |-> None]
        ELSE [game |-> s.game,
              value |-> IF s.ok THEN Some(c.cnt) ELSE None]

\* finish_piece_turn spawning the popped piece before the lines are cleared
finish_piece_turn_spawn_first(g) ==
    LET locked == lock_down_piece(g)
        p == pop_next_piece(locked)
        g2 == [p.game EXCEPT !.used_hold = FALSE]
        s == spawn_new_piece(g2, p.piece)
        c == Playfield_clear_completed_lines(s.game.playfield)
        g3 == [s.game EXCEPT !.playfield = c.fill_state]
    IN  IF p.game.panicked THEN [game |-> p.game, value |-> None]
        ELSE [game |-> g3,
              value |-> IF s.ok THEN Some(c.cnt) ELSE None]

\* finish_piece_turn without the call of clear_completed_lines
finish_piece_turn_noclear(g) ==
    LET locked == lock_down_piece(g)
        p == pop_next_piece(locked)
        g2 == [p.game EXCEPT !.used_hold = FALSE]
        s == spawn_new_piece(g2, p.piece)
    IN  IF p.game.panicked THEN [game |-> p.game, value |-> None]
        ELSE [game |-> s.game,
              value |-> IF s.ok THEN Some(0) ELSE None]

\* Game::finish_piece_turn: `value` is the Option<usize> returned
finish_piece_turn(g) ==
    LET locked == lock_down_piece(g)
        p == pop_next_piece(locked)
        g2 == [p.game EXCEPT !.used_hold = FALSE]
        c == Playfield_clear_completed_lines(g2.playfield)
        g3 == [g2 EXCEPT !.playfield = c.fill_state]
        s == spawn_new_piece(g3, p.piece)
    IN  IF p.game.panicked THEN [game |-> p.game, value |-> None]
        ELSE [game |-> s.game,
              value |-> IF s.ok THEN Some(c.cnt) ELSE None]

RECURSIVE fill_queue(_, _)
\* the loop `for _ in 0..NEXT_SIZE` of Game::new
fill_queue(g, n) ==
    IF n = 0 THEN g
    ELSE LET d == next_piece(g.rng)
         IN  fill_queue([g EXCEPT !.next_pieces = Append(@, d.piece),
                                  !.rng = d.gen], n - 1)

\* Game::new filling the queue before it draws the first piece
Game_new_queue_first(seed) ==
    LET gen == RandomGenerator_new(seed)
        slf == [playfield |-> Playfield_new,
                active_piece |-> ActivePiece_new(0, Vec2I8(0, 0)),
                next_pieces |-> <<>>,
                held_piece |-> None,
                used_hold |-> FALSE,
                rng |-> gen,
                panicked |-> FALSE]
        filled == fill_queue(slf, NEXT_SIZE)
        first == next_piece(filled.rng)
    IN  spawn_new_piece([filled EXCEPT !.rng = first.gen], first.piece).game

\* Game::new, for the seed StdRng::from_entropy() obtained.  The
\* placeholder active piece (PieceData::default()) is replaced by the spawn
\* before new returns.
Game_new(seed) ==
    LET gen == RandomGenerator_new(seed)
        first == next_piece(gen)
        slf == [playfield |-> Playfield_new,
                active_piece |-> ActivePiece_new(0, Vec2I8(0, 0)),
                next_pieces |-> <<>>,
                held_piece |-> None,
                used_hold |-> FALSE,
                rng |-> first.gen,
                panicked |-> FALSE]
    IN  spawn_new_piece(fill_queue(slf, NEXT_SIZE), first.piece).game

(***************************************************************************)
(* State: the fields of one Game, and the history of the interface.        *)
(***************************************************************************)
VARIABLES
    playfield,      \* Game.playfield.fill_state
    active_piece,   \* Game.active_piece
    next_pieces,    \* Game.next_pieces
    held_piece,     \* Game.held_piece
    used_hold,      \* Game.used_hold
    rng,            \* Game.rng: its fields rng, bag, bag_left
    panicked,       \* a call has panicked
    last,           \* history: the last call and what it returned
    steps,          \* history: number of calls made so far
    locks,          \* history: number of finish_piece_turn calls so far
    holds,          \* history: hold_piece calls since new or the last
                    \*          finish_piece_turn (2 stands for two or more)
    game_over,      \* history: some finish_piece_turn has returned None
    twin            \* a second Game instance and what its last call
                    \* returned, where two instances are compared (SpecTwin)

vars == <<playfield, active_piece, next_pieces, held_piece, used_hold, rng,
          pieces, panicked, last, steps, locks, holds, game_over, twin>>

\* there is no second instance
NoTwin == <<>>

\* Bounds of the exploration
MaxSeed == 7
MaxSteps == 5

\* the seeds StdRng::from_entropy() may deliver to a Game
GameSeeds == {k * 1000010 : k \in 0..(MaxSeed - 1)}

\* the game held by the variables
Game ==
    [playfield |-> playfield, active_piece |-> active_piece,
     next_pieces |-> next_pieces, held_piece |-> held_piece,
     used_hold |-> used_hold, rng |-> rng, panicked |-> panicked]

SetGame(g) ==
    /\ playfield' = g.playfield
    /\ active_piece' = g.active_piece
    /\ next_pieces' = g.next_pieces
    /\ held_piece' = g.held_piece
    /\ used_hold' = g.used_hold
    /\ rng' = g.rng
    /\ panicked' = g.panicked
    /\ pieces' = pieces

\* what a call returned: ret is "true"/"false" for the bool commands,
\* "some"/"none" for finish_piece_turn (value = the count in Some), "unit"
\* for quick_drop, "new" for the constructor
Returned(cmd, ret, value) == [cmd |-> cmd, ret |-> ret, value |-> value]

BoolRet(b) == IF b THEN "true" ELSE "false"

\* Game::new with one of the given seeds, no command issued yet
GameInit(seeds) ==
    /\ pieces = create_all_pieces
    /\ \E seed \in seeds :
          LET g == Game_new(seed)
          IN  /\ playfield = g.playfield
              /\ active_piece = g.active_piece
              /\ next_pieces = g.next_pieces
              /\ held_piece = g.held_piece
              /\ used_hold = g.used_hold
              /\ rng = g.rng
              /\ panicked = g.panicked
    /\ last = Returned("new", "new", 0)
    /\ steps = 0
    /\ locks = 0
    /\ holds = 0
    /\ game_over = FALSE
    /\ twin = NoTwin

Init == GameInit(GameSeeds)

\* a bool command other than hold_piece: make the call, record the result
BoolCommand(cmd, result) ==
    \E r \in {result} :
        /\ SetGame(r.game)
        /\ last' = Returned(cmd, BoolRet(r.ok), 0)
        /\ steps' = steps + 1
        /\ UNCHANGED <<locks, holds, game_over, twin>>

DoMoveLeft == BoolCommand("move_left", move_left(Game))

DoMoveRight == BoolCommand("move_right", move_right(Game))

DoMoveDown == BoolCommand("move_down", move_down(Game))

DoRotateLeft == BoolCommand("rotate_left", rotate_left(Game))

DoRotateRight == BoolCommand("rotate_right", rotate_right(Game))

DoHoldPiece ==
    \E r \in {hold_piece(Game)} :
        /\ SetGame(r.game)
        /\ last' = Returned("hold_piece", BoolRet(r.ok), 0)
        /\ steps' = steps + 1
        /\ holds' = IF holds = 0 THEN 1 ELSE 2
        /\ UNCHANGED <<locks, game_over, twin>>

DoQuickDrop ==
    \E g \in {quick_drop(Game)} :
        /\ SetGame(g)
        /\ last' = Returned("quick_drop", "unit", 0)
        /\ steps' = steps + 1
        /\ UNCHANGED <<locks, holds, game_over, twin>>

DoFinishPieceTurn ==
    \E r \in {finish_piece_turn(Game)} :
        /\ SetGame(r.game)
        /\ last' = IF r.value = None
                   THEN Returned("finish_piece_turn", "none", 0)
                   ELSE Returned("finish_piece_turn", "some", r.value[1])
        /\ steps' = steps + 1
        /\ locks' = locks + 1
        /\ holds' = 0
        /\ game_over' = (game_over \/ r.value = None)
        /\ UNCHANGED twin

(***************************************************************************)
(* Spec: a client issuing any command of the interface at any time.        *)
(***************************************************************************)
\* a command can be issued: the process is alive and the exploration bound
\* is not reached
CanIssue == ~panicked /\ steps < MaxSteps

MoveLeft == CanIssue /\ DoMoveLeft

MoveRight == CanIssue /\ DoMoveRight

MoveDown == CanIssue /\ DoMoveDown

QuickDrop == CanIssue /\ DoQuickDrop

RotateLeft == CanIssue /\ DoRotateLeft

RotateRight == CanIssue /\ DoRotateRight

HoldPiece == CanIssue /\ DoHoldPiece

FinishPieceTurn == CanIssue /\ DoFinishPieceTurn

Next ==
    \/ MoveLeft
    \/ MoveRight
    \/ MoveDown
    \/ QuickDrop
    \/ RotateLeft
    \/ RotateRight
    \/ HoldPiece
    \/ FinishPieceTurn

Spec == Init /\ [][Next]_vars

(***************************************************************************)
(* SpecFall: a client that only lets the piece fall: move_down until it    *)
(* returns false, then finish_piece_turn, and so on until game over.       *)
(***************************************************************************)
MaxFallSteps == 45

Landed == last.cmd = "move_down" /\ last.ret = "false"

FallMoveDown ==
    /\ ~panicked /\ ~game_over /\ steps < MaxFallSteps
    /\ ~Landed
    /\ DoMoveDown

FallFinish ==
    /\ ~panicked /\ ~game_over /\ steps < MaxFallSteps
    /\ Landed
    /\ DoFinishPieceTurn

FallNext == FallMoveDown \/ FallFinish

SpecFall == Init /\ [][FallNext]_vars

(***************************************************************************)
(* SpecStack: a client that repeats quick_drop, finish_piece_turn until    *)
(* finish_piece_turn returns None.  The client never stops by itself.      *)
(***************************************************************************)
MaxStackSteps == 60
MaxStackSeed == 100

\* the seeds of the stacking games: more of them than GameSeeds, the runs
\* being short
StackSeeds == {k * 1000010 : k \in 0..(MaxStackSeed - 1)}

StackInit == GameInit(StackSeeds)

StackQuickDrop ==
    /\ ~panicked /\ ~game_over /\ steps < MaxStackSteps
    /\ last.cmd # "quick_drop"
    /\ DoQuickDrop

StackFinish ==
    /\ ~panicked /\ ~game_over /\ steps < MaxStackSteps
    /\ last.cmd = "quick_drop"
    /\ DoFinishPieceTurn

StackNext == StackQuickDrop \/ StackFinish

\* the client makes its next call (steps counts the calls): every step of
\* StackNext is such a call, and a call can be made whenever StackNext can
\* take a step
StackCall ==
    /\ ~panicked /\ ~game_over /\ steps < MaxStackSteps
    /\ steps' = steps + 1

\* the client never stops calling while the game lasts
SpecStack == StackInit /\ [][StackNext]_vars /\ WF_steps(StackCall)

(***************************************************************************)
(* SpecRng: a RandomGenerator on its own, drawn from again and again.      *)
(* The Game fields keep the values of an empty, unused game.               *)
(***************************************************************************)
MaxRngSeed == 5040
MaxDraws == 15

\* the seeds StdRng::from_entropy() may deliver: the first MaxRngSeed
\* numbers, which give the first refill every possible sequence of
\* gen_range outcomes (7 * 6 * 5 * 4 * 3 * 2 * 1 = 5040 of them)
RngSeeds == 0..(MaxRngSeed - 1)

NoGame ==
    /\ pieces = create_all_pieces
    /\ playfield = Playfield_new
    /\ active_piece = ActivePiece_new(0, Vec2I8(0, 0))
    /\ next_pieces = <<>>
    /\ held_piece = None
    /\ used_hold = FALSE
    /\ panicked = FALSE
    /\ steps = 0
    /\ locks = 0
    /\ holds = 0
    /\ game_over = FALSE
    /\ twin = NoTwin

RngInit ==
    /\ NoGame
    /\ \E seed \in RngSeeds : rng = RandomGenerator_new(seed)
    /\ last = Returned("new", "new", 0)

Draw ==
    /\ Len(rng.drawn) < MaxDraws
    /\ LET d == next_piece(rng)
       IN  /\ rng' = d.gen
           /\ last' = Returned("next_piece", "piece", d.piece)
    /\ UNCHANGED <<playfield, active_piece, next_pieces, held_piece,
                   used_hold, pieces, panicked, steps, locks, holds, game_over,
                   twin>>

RngNext == Draw

SpecRng == RngInit /\ [][RngNext]_vars

(***************************************************************************)
(* SpecClear: Playfield::clear_completed_lines applied to playfields       *)
(* whose top row and last MaxClearRows rows are each empty, full, full     *)
(* but for column 0, or empty but for column 9.                            *)
(***************************************************************************)
MaxClearRows == 4

ClearRows ==
    {0} \cup ((TRUE_PLAYFIELD_HEIGHT - MaxClearRows)..(TRUE_PLAYFIELD_HEIGHT - 1))

RowPatterns ==
    { [x \in 0..(PLAYFIELD_WIDTH - 1) |-> BLACK],
      [x \in 0..(PLAYFIELD_WIDTH - 1) |-> color(3)],
      [x \in 0..(PLAYFIELD_WIDTH - 1) |-> IF x = 0 THEN BLACK ELSE color(0)],
      [x \in 0..(PLAYFIELD_WIDTH - 1) |-> IF x = 9 THEN color(5) ELSE BLACK] }

ClearInit ==
    /\ pieces = create_all_pieces
    /\ \E rows \in [ClearRows -> RowPatterns] :
          playfield = [y \in 0..(TRUE_PLAYFIELD_HEIGHT - 1) |->
                          IF y \in ClearRows THEN rows[y]
                          ELSE [x \in 0..(PLAYFIELD_WIDTH - 1) |-> BLACK]]
    /\ active_piece = ActivePiece_new(0, Vec2I8(0, 0))
    /\ next_pieces = <<>>
    /\ held_piece = None
    /\ used_hold = FALSE
    /\ panicked = FALSE
    /\ rng = RandomGenerator_new(0)
    /\ last = Returned("new", "new", 0)
    /\ steps = 0
    /\ locks = 0
    /\ holds = 0
    /\ game_over = FALSE
    /\ twin = NoTwin

ClearCompletedLines ==
    /\ steps < 2
    /\ LET c == Playfield_clear_completed_lines(playfield)
       IN  /\ playfield' = c.fill_state
           /\ last' = Returned("clear_completed_lines", "count", c.cnt)
    /\ steps' = steps + 1
    /\ UNCHANGED <<active_piece, next_pieces, held_piece, used_hold, rng,
                   pieces, panicked, locks, holds, game_over, twin>>

ClearNext == ClearCompletedLines

SpecClear == ClearInit /\ [][ClearNext]_vars

(***************************************************************************)
(* SpecKick: a game whose first piece is the I piece, with terrain around  *)
(* the spawned piece, and one rotate_right.                                *)
(***************************************************************************)
MaxKickSteps == 1

\* the cells that may hold terrain: the rows of the three upright poses
\* (bare rotation, first kick, second kick) the piece itself does not cover
KickCells == {<<x, y>> : x \in {3, 5, 6},
                         y \in {PLAYFIELD_HEIGHT - 1, PLAYFIELD_HEIGHT + 1,
                                PLAYFIELD_HEIGHT + 2}}

\* Game::new drew the I piece first; any subset of KickCells is occupied
KickInit ==
    /\ pieces = create_all_pieces
    /\ \E g \in {Game_new(seed) : seed \in GameSeeds} :
          /\ g.active_piece.piece_data = 0
          /\ \E terrain \in SUBSET KickCells :
                playfield =
                  [y \in 0..(TRUE_PLAYFIELD_HEIGHT - 1) |->
                      [x \in 0..(PLAYFIELD_WIDTH - 1) |->
                          IF <<x, y>> \in terrain THEN color(1)
                          ELSE g.playfield[y][x]]]
          /\ active_piece = g.active_piece
          /\ next_pieces = g.next_pieces
          /\ held_piece = g.held_piece
          /\ used_hold = g.used_hold
          /\ rng = g.rng
          /\ panicked = g.panicked
    /\ last = Returned("new", "new", 0)
    /\ steps = 0
    /\ locks = 0
    /\ holds = 0
    /\ game_over = FALSE
    /\ twin = NoTwin

KickRotateRight == ~panicked /\ steps < MaxKickSteps /\ DoRotateRight

KickNext == KickRotateRight

SpecKick == KickInit /\ [][KickNext]_vars

(***************************************************************************)
(* SpecTerrain: a game that starts on a field with terrain: a tile above   *)
(* the spawn area, and walls with a gap below the spawn columns in the     *)
(* two bottom rows.  The client drops, shifts, holds and locks pieces.     *)
(***************************************************************************)
MaxTerrainSteps == 3

\* a bottom row: empty, or full but for the columns lo..hi
WallRow(lo, hi) ==
    [x \in 0..(PLAYFIELD_WIDTH - 1) |->
        IF x \in lo..hi THEN BLACK ELSE color(5)]

WallRows == {WallRow(0, PLAYFIELD_WIDTH - 1), WallRow(3, 6), WallRow(3, 5),
             WallRow(4, 5)}

\* the row above the spawned piece: empty, or one tile in column 4
TopRows == {WallRow(0, PLAYFIELD_WIDTH - 1),
            [x \in 0..(PLAYFIELD_WIDTH - 1) |->
                IF x = 4 THEN color(6) ELSE BLACK]}

TerrainInit ==
    /\ pieces = create_all_pieces
    /\ \E g \in {Game_new(seed) : seed \in GameSeeds} :
          /\ \E top \in TopRows : \E r1 \in WallRows : \E r2 \in WallRows :
                playfield =
                  [y \in 0..(TRUE_PLAYFIELD_HEIGHT - 1) |->
                      CASE y = PLAYFIELD_HEIGHT - 1 -> top
                        [] y = TRUE_PLAYFIELD_HEIGHT - 2 -> r1
                        [] y = TRUE_PLAYFIELD_HEIGHT - 1 -> r2
                        [] OTHER -> g.playfield[y]]
          /\ active_piece = g.active_piece
          /\ next_pieces = g.next_pieces
          /\ held_piece = g.held_piece
          /\ used_hold = g.used_hold
          /\ rng = g.rng
          /\ panicked = g.panicked
    /\ last = Returned("new", "new", 0)
    /\ steps = 0
    /\ locks = 0
    /\ holds = 0
    /\ game_over = FALSE
    /\ twin = NoTwin

TerrainCanIssue == ~panicked /\ steps < MaxTerrainSteps

TerrainQuickDrop == TerrainCanIssue /\ DoQuickDrop

TerrainMoveLeft == TerrainCanIssue /\ DoMoveLeft

TerrainHoldPiece == TerrainCanIssue /\ DoHoldPiece

TerrainFinish == TerrainCanIssue /\ DoFinishPieceTurn

TerrainNext ==
    \/ TerrainQuickDrop
    \/ TerrainMoveLeft
    \/ TerrainHoldPiece
    \/ TerrainFinish

SpecTerrain == TerrainInit /\ [][TerrainNext]_vars

(***************************************************************************)
(* SpecTwin: two Game instances driven by the same client.  The seed of    *)
(* the second differs from the seed of the first by a multiple of          *)
(* RefillPeriod, so that the two StdRngs differ while their first two bag  *)
(* refills come out alike.                                                 *)
(***************************************************************************)
MaxTwin == 2
MaxTwinSteps == 3

\* the entropy two refills of the bag consume: (7!)^2
RefillPeriod == 25401600

\* the commands of the interface
Commands == {"move_left", "move_right", "move_down", "quick_drop",
             "rotate_left", "rotate_right", "hold_piece",
             "finish_piece_turn"}

\* the bool result r of a command as a call result
BoolCall(r) == [game |-> r.game, ret |-> BoolRet(r.ok), value |-> 0]

\* the call of command cmd on game g: the game afterwards and what the call
\* returned
Call(cmd, g) ==
    CASE cmd = "move_left" -> BoolCall(move_left(g))
      [] cmd = "move_right" -> BoolCall(move_right(g))
      [] cmd = "move_down" -> BoolCall(move_down(g))
      [] cmd = "rotate_left" -> BoolCall(rotate_left(g))
      [] cmd = "rotate_right" -> BoolCall(rotate_right(g))
      [] cmd = "hold_piece" -> BoolCall(hold_piece(g))
      [] cmd = "quick_drop" ->
            [game |-> quick_drop(g), ret |-> "unit", value |-> 0]
      [] cmd = "finish_piece_turn" ->
            LET r == finish_piece_turn(g)
            IN  IF r.value = None
                THEN [game |-> r.game, ret |-> "none", value |-> 0]
                ELSE [game |-> r.game, ret |-> "some", value |-> r.value[1]]

\* Game::new twice, with two seeds RefillPeriod * j apart
TwinInit ==
    /\ pieces = create_all_pieces
    /\ \E pair \in {<<Game_new(seed), Game_new(seed + RefillPeriod * j)>> :
                       seed \in GameSeeds, j \in 1..MaxTwin} :
          /\ playfield = pair[1].playfield
          /\ active_piece = pair[1].active_piece
          /\ next_pieces = pair[1].next_pieces
          /\ held_piece = pair[1].held_piece
          /\ used_hold = pair[1].used_hold
          /\ rng = pair[1].rng
          /\ panicked = pair[1].panicked
          /\ twin = [game |-> pair[2], last |-> Returned("new", "new", 0)]
    /\ last = Returned("new", "new", 0)
    /\ steps = 0
    /\ locks = 0
    /\ holds = 0
    /\ game_over = FALSE

\* the client issues the same command to both instances
TwinCommand(cmd) ==
    /\ ~panicked
    /\ steps < MaxTwinSteps
    /\ \E a \in {Call(cmd, Game)}, b \in {Call(cmd, twin.game)} :
          /\ SetGame(a.game)
          /\ last' = Returned(cmd, a.ret, a.value)
          /\ twin' = [game |-> b.game, last |-> Returned(cmd, b.ret, b.value)]
          /\ game_over' = (game_over \/ a.ret = "none")
    /\ steps' = steps + 1
    /\ locks' = IF cmd = "finish_piece_turn" THEN locks + 1 ELSE locks
    /\ holds' = CASE cmd = "finish_piece_turn" -> 0
                  [] cmd = "hold_piece" -> IF holds = 0 THEN 1 ELSE 2
                  [] OTHER -> holds

TwinNext == \E cmd \in Commands : TwinCommand(cmd)

SpecTwin == TwinInit /\ [][TwinNext]_vars

(***************************************************************************)
(* SpecSpawn: spawn_new_piece called with any kind of piece on a playfield *)
(* with tiles in and around the spawn area.                                *)
(***************************************************************************)
MaxSpawnSteps == 1

\* the cells of the spawn area that may hold a tile
SpawnCells == {<<3, 19>>, <<4, 19>>, <<3, 20>>, <<4, 20>>, <<6, 20>>,
               <<3, 21>>, <<4, 21>>, <<5, 21>>}

\* a game as Game::new makes it, with tiles on some of the SpawnCells
SpawnInit ==
    /\ pieces = create_all_pieces
    /\ \E g \in {Game_new(seed) : seed \in GameSeeds} :
          /\ \E terrain \in SUBSET SpawnCells :
                playfield =
                  [y \in 0..(TRUE_PLAYFIELD_HEIGHT - 1) |->
                      [x \in 0..(PLAYFIELD_WIDTH - 1) |->
                          IF <<x, y>> \in terrain THEN color(1)
                          ELSE g.playfield[y][x]]]
          /\ active_piece = g.active_piece
          /\ next_pieces = g.next_pieces
          /\ held_piece = g.held_piece
          /\ used_hold = g.used_hold
          /\ rng = g.rng
          /\ panicked = g.panicked
    /\ last = Returned("new", "new", 0)
    /\ steps = 0
    /\ locks = 0
    /\ holds = 0
    /\ game_over = FALSE
    /\ twin = NoTwin

\* a call of spawn_new_piece; `value` records the kind handed in
SpawnNewPiece ==
    /\ ~panicked
    /\ steps < MaxSpawnSteps
    /\ \E new_piece \in 0..(PIECE_COUNT - 1) :
          \E r \in {spawn_new_piece(Game, new_piece)} :
              /\ SetGame(r.game)
              /\ last' = Returned("spawn_new_piece", BoolRet(r.ok), new_piece)
    /\ steps' = steps + 1
    /\ UNCHANGED <<locks, holds, game_over, twin>>

SpawnNext == SpawnNewPiece

SpecSpawn == SpawnInit /\ [][SpawnNext]_vars

(***************************************************************************)
(* SpecOverlap: has_overlap applied to a piece of any kind, in any         *)
(* rotation, at positions over the whole range of i8.                      *)
(***************************************************************************)
MaxOverlapSteps == 1

\* the range of i8
I8_MIN == -128
I8_MAX == 127

\* the columns and rows at which the whole range of the other coordinate is
\* explored
ProbeCols == {I8_MIN, -3, -1, 0, 3, 7, 9, I8_MAX}
ProbeRows == {I8_MIN, -3, -1, 0, 17, 36, 38, I8_MAX}

\* the positions explored for every kind and rotation
ProbePositions ==
    {Vec2I8(x, y) : x \in I8_MIN..I8_MAX, y \in ProbeRows}
        \cup {Vec2I8(x, y) : x \in ProbeCols, y \in I8_MIN..I8_MAX}

\* all positions, explored for the T piece in rotation 0
AllPositions == {Vec2I8(x, y) : x \in I8_MIN..I8_MAX, y \in I8_MIN..I8_MAX}

\* a playfield with one tile in row 19 and tiles in the two bottom rows, and
\* the spawned piece of a game put in some rotation at some position
OverlapInit ==
    /\ pieces = create_all_pieces
    /\ \E g \in {Game_new(seed) : seed \in GameSeeds} :
          /\ playfield =
                [y \in 0..(TRUE_PLAYFIELD_HEIGHT - 1) |->
                    CASE y = PLAYFIELD_HEIGHT - 1 ->
                            [x \in 0..(PLAYFIELD_WIDTH - 1) |->
                                IF x = 4 THEN color(6) ELSE BLACK]
                      [] y = TRUE_PLAYFIELD_HEIGHT - 2 -> WallRow(3, 6)
                      [] y = TRUE_PLAYFIELD_HEIGHT - 1 -> WallRow(4, 5)
                      [] OTHER -> g.playfield[y]]
          /\ \E rotation \in 0..3 :
             \E position \in IF g.active_piece.piece_data = 5 /\ rotation = 0
                              THEN AllPositions ELSE ProbePositions :
                active_piece = [piece_data |-> g.active_piece.piece_data,
                                rotation |-> rotation,
                                position |-> position]
          /\ next_pieces = g.next_pieces
          /\ held_piece = g.held_piece
          /\ used_hold = g.used_hold
          /\ rng = g.rng
          /\ panicked = g.panicked
    /\ last = Returned("new", "new", 0)
    /\ steps = 0
    /\ locks = 0
    /\ holds = 0
    /\ game_over = FALSE
    /\ twin = NoTwin

\* a call of playfield.has_overlap(&active_piece)
HasOverlap ==
    /\ steps < MaxOverlapSteps
    /\ last' = Returned("has_overlap",
                        BoolRet(has_overlap(playfield, active_piece)), 0)
    /\ steps' = steps + 1
    /\ UNCHANGED <<playfield, active_piece, next_pieces, held_piece,
                   used_hold, rng, pieces, panicked, locks, holds, game_over,
                   twin>>

OverlapNext == HasOverlap

SpecOverlap == OverlapInit /\ [][OverlapNext]_vars

(***************************************************************************)
(* SpecTile: has_tile asked about coordinates inside and outside the grid. *)
(***************************************************************************)
MaxTileSteps == 1
MaxTileCoord == 41

\* the coordinates asked about: small values and usize::MAX
TileCoords == {Usize(n) : n \in 0..MaxTileCoord} \cup {I8AsUsize(-1)}

\* a playfield with one tile in row 19 and tiles in the two bottom rows
TileInit ==
    /\ pieces = create_all_pieces
    /\ \E g \in {Game_new(seed) : seed \in GameSeeds} :
          /\ playfield =
                [y \in 0..(TRUE_PLAYFIELD_HEIGHT - 1) |->
                    CASE y = PLAYFIELD_HEIGHT - 1 ->
                            [x \in 0..(PLAYFIELD_WIDTH - 1) |->
                                IF x = 4 THEN color(6) ELSE BLACK]
                      [] y = TRUE_PLAYFIELD_HEIGHT - 2 -> WallRow(3, 6)
                      [] y = TRUE_PLAYFIELD_HEIGHT - 1 -> WallRow(4, 5)
                      [] OTHER -> g.playfield[y]]
          /\ active_piece = g.active_piece
          /\ next_pieces = g.next_pieces
          /\ held_piece = g.held_piece
          /\ used_hold = g.used_hold
          /\ rng = g.rng
          /\ panicked = g.panicked
    /\ last = Returned("new", "new", 0)
    /\ steps = 0
    /\ locks = 0
    /\ holds = 0
    /\ game_over = FALSE
    /\ twin = NoTwin

\* a call of playfield.has_tile(x, y); `value` records the arguments
HasTile ==
    /\ steps < MaxTileSteps
    /\ \E x \in TileCoords : \E y \in TileCoords :
          last' = Returned("has_tile", BoolRet(has_tile(playfield, x, y)),
                           <<x, y>>)
    /\ steps' = steps + 1
    /\ UNCHANGED <<playfield, active_piece, next_pieces, held_piece,
                   used_hold, rng, pieces, panicked, locks, holds, game_over,
                   twin>>

TileNext == HasTile

SpecTile == TileInit /\ [][TileNext]_vars

(***************************************************************************)
(* SpecLock: lock_down_piece called for a piece of any kind, in any        *)
(* rotation, at positions inside the grid and across its edges.            *)
(***************************************************************************)
MaxLockSteps == 1

\* the columns and rows of the positions explored
LockCols == -2..8
LockRows == {-1, 0, 18, 36, 37, 38}

\* a playfield with one tile in row 19 and tiles in the two bottom rows, and
\* the spawned piece of a game put in some rotation at some position
LockInit ==
    /\ pieces = create_all_pieces
    /\ \E g \in {Game_new(seed) : seed \in GameSeeds} :
          /\ playfield =
                [y \in 0..(TRUE_PLAYFIELD_HEIGHT - 1) |->
                    CASE y = PLAYFIELD_HEIGHT - 1 ->
                            [x \in 0..(PLAYFIELD_WIDTH - 1) |->
                                IF x = 4 THEN color(6) ELSE BLACK]
                      [] y = TRUE_PLAYFIELD_HEIGHT - 2 -> WallRow(3, 6)
                      [] y = TRUE_PLAYFIELD_HEIGHT - 1 -> WallRow(4, 5)
                      [] OTHER -> g.playfield[y]]
          /\ \E rotation \in 0..3 : \E x \in LockCols : \E y \in LockRows :
                active_piece = [piece_data |-> g.active_piece.piece_data,
                                rotation |-> rotation,
                                position |-> Vec2I8(x, y)]
          /\ next_pieces = g.next_pieces
          /\ held_piece = g.held_piece
          /\ used_hold = g.used_hold
          /\ rng = g.rng
          /\ panicked = g.panicked
    /\ last = Returned("new", "new", 0)
    /\ steps = 0
    /\ locks = 0
    /\ holds = 0
    /\ game_over = FALSE
    /\ twin = NoTwin

\* a call of lock_down_piece
LockDownPiece ==
    /\ steps < MaxLockSteps
    /\ SetGame(lock_down_piece(Game))
    /\ last' = Returned("lock_down_piece", "unit", 0)
    /\ steps' = steps + 1
    /\ UNCHANGED <<locks, holds, game_over, twin>>

LockNext == LockDownPiece

SpecLock == LockInit /\ [][LockNext]_vars

(***************************************************************************)
(* SpecRotate: PieceMatrix::rotate_right applied, up to MaxRotations times *)
(* in a row, to matrices of size 2, 3 and 4.                               *)
(***************************************************************************)
MaxRotations == 4
MaxSize4Cells == 2

\* the cells of the n x n box
Box(n) == (0..(n - 1)) \X (0..(n - 1))

\* the array literal handed to new_size2/3/4 for a set of cells
BoolArray(cells, n) ==
    [i \in 1..n |-> [j \in 1..n |-> <<i - 1, j - 1>> \in cells]]

\* the matrices explored: every matrix of size 2 and of size 3, and the
\* matrices of size 4 with at most MaxSize4Cells set cells
Matrices ==
    {new_size2(BoolArray(cells, 2)) : cells \in SUBSET Box(2)}
        \cup {new_size3(BoolArray(cells, 3)) : cells \in SUBSET Box(3)}
        \cup {new_size4(BoolArray(cells, 4)) :
                 cells \in {c \in SUBSET Box(4) :
                               Cardinality(c) <= MaxSize4Cells}}

RotateInit ==
    /\ NoGame
    /\ rng = RandomGenerator_new(0)
    /\ last = Returned("new", "new", 0)

\* PieceMatrix::new_size2/3/4: `value` holds the matrix made (base), the
\* result of the last rotate_right (cur), its argument (prev) and the
\* number n of rotations applied to base
NewMatrix ==
    /\ last.cmd = "new"
    /\ \E m \in Matrices :
          last' = Returned("new_size", "matrix",
                           [base |-> m, prev |-> m, cur |-> m, n |-> 0])
    /\ steps' = steps + 1
    /\ UNCHANGED <<playfield, active_piece, next_pieces, held_piece,
                   used_hold, rng, pieces, panicked, locks, holds, game_over,
                   twin>>

\* a call of rotate_right on the current matrix
MatrixRotateRight ==
    /\ last.cmd \in {"new_size", "rotate_right"}
    /\ last.value.n < MaxRotations
    /\ last' = Returned("rotate_right", "matrix",
                        [base |-> last.value.base,
                         prev |-> last.value.cur,
                         cur |-> PieceMatrix_rotate_right(last.value.cur),
                         n |-> last.value.n + 1])
    /\ steps' = steps + 1
    /\ UNCHANGED <<playfield, active_piece, next_pieces, held_piece,
                   used_hold, rng, pieces, panicked, locks, holds, game_over,
                   twin>>

RotateNext == NewMatrix \/ MatrixRotateRight

SpecRotate == RotateInit /\ [][RotateNext]_vars

(***************************************************************************)
(* SpecNew: Game::new for seeds that give every outcome of the first bag   *)
(* refill, followed by one command.                                        *)
(***************************************************************************)
MaxNewSeed == 5040
MaxNewSteps == 1

\* the stride between the seeds: coprime to 7!, so that MaxNewSeed seeds
\* run through all outcomes of the first refill, with various second ones
NewSeedStride == 5039

NewSeeds == {k * NewSeedStride : k \in 0..(MaxNewSeed - 1)}

NewInit ==
    /\ pieces = create_all_pieces
    /\ \E g \in {Game_new(seed) : seed \in NewSeeds} :
          /\ playfield = g.playfield
          /\ active_piece = g.active_piece
          /\ next_pieces = g.next_pieces
          /\ held_piece = g.held_piece
          /\ used_hold = g.used_hold
          /\ rng = g.rng
          /\ panicked = g.panicked
    /\ last = Returned("new", "new", 0)
    /\ steps = 0
    /\ locks = 0
    /\ holds = 0
    /\ game_over = FALSE
    /\ twin = NoTwin

NewCanIssue == ~panicked /\ steps < MaxNewSteps

NewHoldPiece == NewCanIssue /\ DoHoldPiece

NewQuickDrop == NewCanIssue /\ DoQuickDrop

NewNext == NewHoldPiece \/ NewQuickDrop

SpecNew == NewInit /\ [][NewNext]_vars

(***************************************************************************)
(* SpecWell: a game that starts on a field whose bottom rows are walls     *)
(* with a well one column wide below the spawn area.  The client turns,    *)
(* drops and locks pieces.                                                 *)
(***************************************************************************)
MaxWellRows == 5
MaxWellSteps == 3

\* each of the bottom MaxWellRows rows is empty or full but for column 5,
\* the column an I piece turned clockwise at its spawn pose stands in
WellInit ==
    /\ pieces = create_all_pieces
    /\ \E g \in {Game_new(seed) : seed \in GameSeeds} :
          /\ \E walls \in SUBSET ((TRUE_PLAYFIELD_HEIGHT - MaxWellRows)
                                     ..(TRUE_PLAYFIELD_HEIGHT - 1)) :
                playfield =
                  [y \in 0..(TRUE_PLAYFIELD_HEIGHT - 1) |->
                      IF y \in walls THEN WallRow(5, 5)
                      ELSE g.playfield[y]]
          /\ active_piece = g.active_piece
          /\ next_pieces = g.next_pieces
          /\ held_piece = g.held_piece
          /\ used_hold = g.used_hold
          /\ rng = g.rng
          /\ panicked = g.panicked
    /\ last = Returned("new", "new", 0)
    /\ steps = 0
    /\ locks = 0
    /\ holds = 0
    /\ game_over = FALSE
    /\ twin = NoTwin

\* rotate_right, quick_drop or finish_piece_turn
WellNext ==
    \/ ~panicked /\ steps < MaxWellSteps /\ DoRotateRight
    \/ ~panicked /\ steps < MaxWellSteps /\ DoQuickDrop
    \/ ~panicked /\ steps < MaxWellSteps /\ DoFinishPieceTurn

SpecWell == WellInit /\ [][WellNext]_vars

\* the active piece overlaps the playfield
Overlaps == has_overlap(playfield, active_piece)

(***************************************************************************)
(* Properties                                                              *)
(***************************************************************************)
MoveCommands ==
    {"move_left", "move_right", "move_down", "rotate_left", "rotate_right"}

GameVars == <<playfield, active_piece, next_pieces, held_piece, used_hold,
              rng, panicked>>

\* C1: whenever a command reports success (true, or a cleared-line count)
\* the active piece does not overlap the playfield.  Stated for the games in
\* which no finish_piece_turn has returned None yet, the games the claim is
\* least doubtful for.
C1_SuccessMeansNoOverlap ==
    (~game_over /\ last.ret \in {"true", "some"}) => ~Overlaps

\* C2: a move_left, move_right, move_down, rotate_left or rotate_right
\* that returns false leaves the active piece (position, rotation) and every
\* playfield cell as they were before the call.
C2_FailedMoveChangesNothing ==
    [][(last'.cmd \in MoveCommands /\ last'.ret = "false")
          => (active_piece' = active_piece /\ playfield' = playfield)]_vars

\* a rotation of a piece other than O has failed, bare rotation and kicks
C2_Witness ==
    /\ last.cmd \in {"rotate_left", "rotate_right"}
    /\ last.ret = "false"
    /\ active_piece.piece_data # 3

\* number of draws of kind k among the draws made so far
DrawCount(k) ==
    Cardinality({i \in 1..Len(rng.drawn) : rng.drawn[i] = k})

\* C3: the draws 7b+1 .. 7b+7 of next_piece contain each of the 7 kinds
\* exactly once; after N complete bags every kind has been drawn N times, and
\* at any moment the draw counts of two kinds differ by at most 1.
C3_BagFairness ==
    LET n == Len(rng.drawn)
        Kinds == 0..(PIECE_COUNT - 1)
    IN  /\ \A b \in 0..((n \div 7) - 1) :
              {rng.drawn[7 * b + j] : j \in 1..7} = Kinds
        /\ (n % 7 = 0) => \A k \in Kinds : DrawCount(k) = n \div 7
        /\ \A k1 \in Kinds : \A k2 \in Kinds :
              DrawCount(k1) - DrawCount(k2) <= 1

\* two complete bags have been drawn, in different orders
C3_Witness ==
    /\ Len(rng.drawn) = 14
    /\ rng.drawn[1] # rng.drawn[8]

\* the rows of a grid that are completely occupied
FullRows(fill_state) ==
    {y \in 0..(TRUE_PLAYFIELD_HEIGHT - 1) :
        \A x \in 0..(PLAYFIELD_WIDTH - 1) : fill_state[y][x] # BLACK}

\* a grid with its full rows taken out and as many empty rows put on top
Compacted(fill_state) ==
    LET rows == [i \in 1..TRUE_PLAYFIELD_HEIGHT |-> fill_state[i - 1]]
        NotFull(r) == \E x \in 0..(PLAYFIELD_WIDTH - 1) : r[x] = BLACK
        kept == SelectSeq(rows, NotFull)
        c == TRUE_PLAYFIELD_HEIGHT - Len(kept)
    IN  [y \in 0..(TRUE_PLAYFIELD_HEIGHT - 1) |->
            IF y < c THEN [x \in 0..(PLAYFIELD_WIDTH - 1) |-> BLACK]
            ELSE kept[y - c + 1]]

\* C4: clear_completed_lines returns the number of rows that were full
\* before the call and leaves that many empty rows on top of the formerly
\* non-full rows, these in their original order and unchanged.
C4_ClearCompacts ==
    [][last'.cmd = "clear_completed_lines"
          => /\ last'.value = Cardinality(FullRows(playfield))
             /\ playfield' = Compacted(playfield)]_vars

\* two non-adjacent full rows were cleared: the row that stood between them
\* (full but for column 0) now lies directly above the last row (empty but
\* for column 9)
C4_Witness ==
    /\ last.cmd = "clear_completed_lines"
    /\ last.value = 2
    /\ playfield[TRUE_PLAYFIELD_HEIGHT - 2][1] # BLACK
    /\ playfield[TRUE_PLAYFIELD_HEIGHT - 2][0] = BLACK
    /\ playfield[TRUE_PLAYFIELD_HEIGHT - 1][9] # BLACK
    /\ playfield[TRUE_PLAYFIELD_HEIGHT - 1][0] = BLACK

\* C5, as claimed: from Game::new with no other command, move_down returns
\* true on each of the first PLAYFIELD_HEIGHT calls and false on the next.
C5_FallsHeightRows ==
    (locks = 0 /\ last.cmd = "move_down")
        => (last.ret = "true" <=> steps <= PLAYFIELD_HEIGHT)

\* C5, amended: from Game::new with no other command, move_down returns
\* true on each of the first 18 calls (19 for the I piece) and false on the
\* call after that.
C5_FallsToFloor ==
    (locks = 0 /\ last.cmd = "move_down")
        => (last.ret = "true"
              <=> steps <= (IF active_piece.piece_data = 0 THEN 19 ELSE 18))

\* the first piece has landed: the move_down after its last successful one
\* returned false
C5_Witness ==
    /\ locks = 0
    /\ Landed
    /\ steps = (IF active_piece.piece_data = 0 THEN 20 ELSE 19)

\* C6: in a new Game, once the first piece has been moved down until
\* move_down failed, finish_piece_turn returns Some(0), the new active piece
\* is the kind that headed the queue before the call, and the queue is its
\* former tail followed by one fresh draw.
C6_FirstFinish ==
    [][(locks = 0 /\ Landed /\ last'.cmd = "finish_piece_turn")
          => /\ last'.ret = "some"
             /\ last'.value = 0
             /\ active_piece'.piece_data = Head(next_pieces)
             /\ Len(next_pieces') = NEXT_SIZE
             /\ SubSeq(next_pieces', 1, NEXT_SIZE - 1) = Tail(next_pieces)
             /\ rng'.drawn = Append(rng.drawn, next_pieces'[NEXT_SIZE])]_vars

\* the first piece fell to the floor and its turn has been finished
C6_Witness ==
    /\ locks = 1
    /\ last.cmd = "finish_piece_turn"
    /\ Len(rng.drawn) = NEXT_SIZE + 2

\* C7: the first hold_piece after Game::new or after a finish_piece_turn
\* returns true; every further hold_piece before the next finish_piece_turn
\* returns false and changes no part of the game state.
C7_HoldOncePerTurn ==
    [][(last'.cmd = "hold_piece" /\ steps' # steps)
          => /\ (last'.ret = "true") <=> (holds = 0)
             /\ (holds > 0) => (GameVars' = GameVars)]_vars

\* after a finish_piece_turn that did not end the game, hold_piece has been
\* called twice and the second call was refused
C7_Witness ==
    /\ ~game_over
    /\ locks >= 1
    /\ holds = 2
    /\ last.cmd = "hold_piece"
    /\ last.ret = "false"

\* C8: a client that repeats quick_drop, finish_piece_turn and nothing else
\* eventually gets None from finish_piece_turn.
C8_StackingEndsGame ==
    <>(last.cmd = "finish_piece_turn" /\ last.ret = "none")

\* finish_piece_turn has returned None after a stack has grown into the
\* hidden rows, in the spawn columns only
C8_Witness ==
    /\ last.cmd = "finish_piece_turn"
    /\ last.ret = "none"
    /\ locks > 2
    /\ \E y \in 0..(PLAYFIELD_HEIGHT - 1) :
          \E x \in 3..6 : playfield[y][x] # BLACK
    /\ \A y \in 0..(TRUE_PLAYFIELD_HEIGHT - 1) :
          \A x \in {0, 1, 2, 7, 8, 9} : playfield[y][x] = BLACK

\* C9: after Game::new and after every command the queue holds NEXT_SIZE
\* pieces and no call has panicked; the draws made so far are the first
\* piece, the NEXT_SIZE of Game::new and one per pop (one per
\* finish_piece_turn, one for the hold_piece that found the slot empty), the
\* queue being the last NEXT_SIZE of them; the bag is a full permutation with
\* as many entries left as the draws have not used.
C9_QueueRefilled ==
    LET n == Len(rng.drawn)
        pops == locks + (IF held_piece = None THEN 0 ELSE 1)
    IN  /\ ~panicked
        /\ Len(next_pieces) = NEXT_SIZE
        /\ n = 1 + NEXT_SIZE + pops
        /\ next_pieces = SubSeq(rng.drawn, n - NEXT_SIZE + 1, n)
        /\ {rng.bag[i] : i \in 0..(PIECE_COUNT - 1)} = 0..(PIECE_COUNT - 1)
        /\ rng.bag_left = (PIECE_COUNT - (n % PIECE_COUNT)) % PIECE_COUNT

\* the queue has been popped by a hold_piece and by two finish_piece_turn,
\* the game still going on
C9_Witness ==
    /\ ~game_over
    /\ locks >= 2
    /\ held_piece # None
    /\ Len(rng.drawn) = NEXT_SIZE + 2 + locks

\* the five poses of the claim for a piece at rotation r, position p:
\* (r+1 mod 4, p), then (r+1 mod 4, p + k_j) for the kicks k_1..k_4 stored
\* for state r
RotateRightCandidates(piece) ==
    LET t == (piece.rotation + 1) % 4
        k == pieces[piece.piece_data].states[piece.rotation].kick_tests
    IN  <<[piece EXCEPT !.rotation = t]>> \o
        [j \in 1..4 |-> [piece EXCEPT !.rotation = t,
                                      !.position = Vec2Add(@, k[j])]]

\* C10: rotate_right commits the first of the five poses that does not
\* overlap and returns true; it returns false only if all five overlap.
C10_RotateRightKickOrder ==
    [][(last'.cmd = "rotate_right" /\ steps' # steps)
          => LET c == RotateRightCandidates(active_piece)
                 free == {i \in 1..5 : ~has_overlap(playfield, c[i])}
             IN  IF free = {}
                 THEN last'.ret = "false"
                 ELSE /\ last'.ret = "true"
                      /\ active_piece' =
                            c[CHOOSE i \in free : \A j \in free : i <= j]]_vars

\* rotate_right has succeeded with its second, third or fourth kick: the
\* pose it started from did not overlap, the bare rotation and the kicks
\* before the one taken did
C10_Witness ==
    /\ last.cmd = "rotate_right"
    /\ last.ret = "true"
    /\ \E j \in 2..4 :
          LET r0 == (active_piece.rotation + 3) % 4
              k == pieces[active_piece.piece_data].states[r0].kick_tests
              before == [active_piece EXCEPT
                            !.rotation = r0,
                            !.position = Vec2Add(@, Vec2Neg(k[j]))]
              c == RotateRightCandidates(before)
          IN  /\ ~has_overlap(playfield, before)
              /\ \A i \in 1..j : has_overlap(playfield, c[i])
              /\ c[j + 1] = active_piece

\* the five poses of the claim for a piece at rotation r, position p:
\* (r-1 mod 4, p), then (r-1 mod 4, p - k_j) for the kicks k_1..k_4 stored
\* for the target state r-1 mod 4
RotateLeftCandidates(piece) ==
    LET t == (piece.rotation + 3) % 4
        k == pieces[piece.piece_data].states[t].kick_tests
    IN  <<[piece EXCEPT !.rotation = t]>> \o
        [j \in 1..4 |->
            [piece EXCEPT !.rotation = t,
                          !.position = Vec2I8(I8(@.x - k[j].x),
                                              I8(@.y - k[j].y))]]

\* C11: rotate_left commits the first of the five poses (bare rotation, then
\* the target state's kicks subtracted in table order) that does not overlap
\* and returns true; it returns false only if all five overlap.
C11_RotateLeftKickOrder ==
    [][(last'.cmd = "rotate_left" /\ steps' # steps)
          => LET c == RotateLeftCandidates(active_piece)
                 free == {i \in 1..5 : ~has_overlap(playfield, c[i])}
             IN  IF free = {}
                 THEN last'.ret = "false"
                 ELSE /\ last'.ret = "true"
                      /\ active_piece' =
                            c[CHOOSE i \in free : \A j \in free : i <= j]]_vars

\* rotate_left has succeeded with its second, third or fourth kick: the pose
\* it started from did not overlap, the bare rotation and the kicks before
\* the one taken did
C11_Witness ==
    /\ last.cmd = "rotate_left"
    /\ last.ret = "true"
    /\ \E j \in 2..4 :
          LET r0 == (active_piece.rotation + 1) % 4
              k == pieces[active_piece.piece_data]
                      .states[active_piece.rotation].kick_tests
              before == [active_piece EXCEPT
                            !.rotation = r0,
                            !.position = Vec2Add(@, k[j])]
              c == RotateLeftCandidates(before)
          IN  /\ ~has_overlap(playfield, before)
              /\ \A i \in 1..j : has_overlap(playfield, c[i])
              /\ c[j + 1] = active_piece

\* the active piece in rotation state rot, displaced by (dx, dy)
Displaced(rot, dx, dy) ==
    [active_piece EXCEPT !.rotation = rot,
                         !.position = Vec2Add(@, Vec2I8(dx, dy))]

\* C12: an I piece in state 0 whose bare clockwise rotation overlaps and
\* whose state-1 pose shifted by (-2,0) overlaps, but whose state-1 pose
\* shifted by (1,0) is free, ends rotate_right in state 1 displaced by
\* exactly (1,0), and rotate_right returns true.
C12_IKickGolden ==
    [][(/\ last'.cmd = "rotate_right" /\ steps' # steps
        /\ active_piece.piece_data = 0
        /\ active_piece.rotation = 0
        /\ has_overlap(playfield, Displaced(1, 0, 0))
        /\ has_overlap(playfield, Displaced(1, -2, 0))
        /\ ~has_overlap(playfield, Displaced(1, 1, 0)))
          => /\ last'.ret = "true"
             /\ active_piece' = Displaced(1, 1, 0)]_vars

\* the I piece has been rotated from its spawn pose (3,19) into state 1 at
\* (4,19), the upright poses at (3,19) and (1,19) being blocked by terrain
C12_Witness ==
    /\ last.cmd = "rotate_right"
    /\ last.ret = "true"
    /\ active_piece = [piece_data |-> 0, rotation |-> 1,
                       position |-> Vec2I8(4, PLAYFIELD_HEIGHT - 1)]
    /\ has_overlap(playfield, Displaced(1, -1, 0))
    /\ has_overlap(playfield, Displaced(1, -3, 0))

\* a grid with the occupied cells of a piece painted in the piece's colour
Stamp(fill_state, piece) ==
    [y \in 0..(TRUE_PLAYFIELD_HEIGHT - 1) |->
        [x \in 0..(PLAYFIELD_WIDTH - 1) |->
            IF \E mx \in 0..3 : \E my \in 0..3 :
                  /\ matrix(piece)[mx][my]
                  /\ piece.position.x + mx = x
                  /\ piece.position.y + my = y
            THEN color(piece.piece_data)
            ELSE fill_state[y][x]]]

\* the pose a spawned piece of the given kind gets on a grid: rotation 0,
\* column 4 (size 2) or 3, row PLAYFIELD_HEIGHT - 1, and one row further
\* down for a piece of size 2 or 3 if that pose is free
SpawnPose(kind, fill_state) ==
    LET sz == pieces[kind].states[0].matrix.size
        p0 == [piece_data |-> kind, rotation |-> 0,
               position |-> Vec2I8(IF sz = 2 THEN 4 ELSE 3,
                                   PLAYFIELD_HEIGHT - 1)]
        p1 == [p0 EXCEPT !.position.y = PLAYFIELD_HEIGHT]
    IN  IF sz < 4 /\ ~has_overlap(fill_state, p1) THEN p1 ELSE p0

\* C13: finish_piece_turn stamps the active piece, pops the queue head,
\* clears the used-hold flag and the full lines and then spawns the popped
\* piece: it returns None exactly when the popped piece in its spawn pose
\* overlaps the playfield as it is after stamping and line clearing, and
\* Some(n), n the number of rows this call removed, otherwise.
C13_FinishOrder ==
    [][(last'.cmd = "finish_piece_turn" /\ steps' # steps)
          => LET stamped == Stamp(playfield, active_piece)
                 after == Compacted(stamped)
                 spawned == SpawnPose(Head(next_pieces), after)
             IN  /\ playfield' = after
                 /\ active_piece' = spawned
                 /\ used_hold' = FALSE
                 /\ Tail(next_pieces) = SubSeq(next_pieces', 1, NEXT_SIZE - 1)
                 /\ (last'.ret = "none") <=> has_overlap(after, spawned)
                 /\ (last'.ret # "none")
                       => /\ last'.ret = "some"
                          /\ last'.value = Cardinality(FullRows(stamped))]_vars

\* the first lock completed a line, the tile above the spawn area came down
\* one row with it, and the popped piece overlaps it: None was returned
C13_Witness ==
    /\ locks = 1
    /\ last.cmd = "finish_piece_turn"
    /\ last.ret = "none"
    /\ playfield[PLAYFIELD_HEIGHT - 1][4] = BLACK
    /\ \A x \in 0..(PLAYFIELD_WIDTH - 1) :
          /\ (playfield[PLAYFIELD_HEIGHT][x] # BLACK) <=> (x = 4)
          /\ playfield[PLAYFIELD_HEIGHT + 1][x] = BLACK
    /\ Overlaps

\* C14: a successful hold_piece stores the kind of the previously active
\* piece in the hold slot, leaves the playfield unchanged and makes active,
\* in its spawn pose, either the previously held kind (queue and randomizer
\* unchanged) or, the slot being empty, the former queue head (the queue
\* then being its former tail followed by one fresh draw).
C14_HoldSwaps ==
    [][(last'.cmd = "hold_piece" /\ last'.ret = "true" /\ steps' # steps)
          => /\ held_piece' = Some(active_piece.piece_data)
             /\ playfield' = playfield
             /\ IF held_piece # None
                THEN /\ active_piece' = SpawnPose(held_piece[1], playfield)
                     /\ next_pieces' = next_pieces
                     /\ rng' = rng
                ELSE /\ active_piece' =
                            SpawnPose(Head(next_pieces), playfield)
                     /\ Len(next_pieces') = NEXT_SIZE
                     /\ Tail(next_pieces) =
                            SubSeq(next_pieces', 1, NEXT_SIZE - 1)
                     /\ rng'.drawn =
                            Append(rng.drawn, next_pieces'[NEXT_SIZE])]_vars

\* hold_piece, a finish_piece_turn that did not end the game, hold_piece:
\* the second hold has swapped the first piece of the game back in and
\* stored the third
C14_Witness ==
    /\ ~game_over
    /\ last.cmd = "hold_piece"
    /\ last.ret = "true"
    /\ locks = 1
    /\ Len(rng.drawn) = NEXT_SIZE + 3
    /\ active_piece.piece_data = rng.drawn[1]
    /\ held_piece = Some(rng.drawn[3])

\* the grid coordinates of the occupied cells of a piece
Cells(piece) ==
    {<<piece.position.x + mx, piece.position.y + my>> :
        <<mx, my>> \in {m \in (0..3) \X (0..3) : matrix(piece)[m[1]][m[2]]}}

\* the offset by which a move command translates the piece
MoveOffset(cmd) ==
    CASE cmd = "move_left" -> Vec2I8(-1, 0)
      [] cmd = "move_right" -> Vec2I8(1, 0)
      [] cmd = "move_down" -> Vec2I8(0, 1)

\* C15: move_left, move_right and move_down return true exactly when the
\* active piece translated by (-1,0), (+1,0), (0,+1) does not overlap the
\* playfield; on success the position changes by that offset and the
\* rotation stays; a move_down that returns false found, one row below some
\* cell of the piece, the floor or an occupied cell.
C15_MovesTranslate ==
    [][(/\ last'.cmd \in {"move_left", "move_right", "move_down"}
        /\ steps' # steps)
          => LET off == MoveOffset(last'.cmd)
                 target == Displaced(active_piece.rotation, off.x, off.y)
             IN  /\ (last'.ret = "true") <=> ~has_overlap(playfield, target)
                 /\ (last'.ret = "true") => (active_piece' = target)
                 /\ (last'.cmd = "move_down" /\ last'.ret = "false")
                       => \E c \in Cells(active_piece) :
                             \/ c[2] + 1 >= TRUE_PLAYFIELD_HEIGHT
                             \/ playfield[c[2] + 1][c[1]] # BLACK]_vars

\* a move_down has failed on a piece that rests on terrain above the floor
C15_Witness ==
    /\ ~game_over
    /\ last.cmd = "move_down"
    /\ last.ret = "false"
    /\ ~Overlaps
    /\ \A c \in Cells(active_piece) : c[2] + 1 < TRUE_PLAYFIELD_HEIGHT

\* C16: quick_drop leaves the piece in its column and rotation at the first
\* row from which one more step down would overlap, every pose it went
\* through on the way being free, and leaves playfield, queue, hold slot,
\* used-hold flag and randomizer unchanged (the piece is not locked).
C16_QuickDropLands ==
    [][(last'.cmd = "quick_drop" /\ steps' # steps)
          => /\ <<playfield, next_pieces, held_piece, used_hold, rng,
                  panicked>>' =
                <<playfield, next_pieces, held_piece, used_hold, rng,
                  panicked>>
             /\ \E d \in 0..TRUE_PLAYFIELD_HEIGHT :
                   /\ active_piece' = Displaced(active_piece.rotation, 0, d)
                   /\ \A i \in 1..d :
                         ~has_overlap(playfield,
                                      Displaced(active_piece.rotation, 0, i))
                   /\ has_overlap(playfield,
                                  Displaced(active_piece.rotation, 0,
                                            d + 1))]_vars

\* quick_drop has put the piece down on a wall of the terrain, above the
\* floor and above a gap of the bottom row
C16_Witness ==
    /\ last.cmd = "quick_drop"
    /\ locks = 0
    /\ ~Overlaps
    /\ active_piece.position.y > PLAYFIELD_HEIGHT
    /\ \A c \in Cells(active_piece) : c[2] + 1 < TRUE_PLAYFIELD_HEIGHT
    /\ \E c \in Cells(active_piece) :
          playfield[TRUE_PLAYFIELD_HEIGHT - 1][c[1]] = BLACK


\* the fields of a game a client can observe
Observable(g) == <<g.playfield, g.active_piece, g.next_pieces, g.held_piece,
                   g.used_hold>>

\* C17: two Game instances that have received the same sequence of
\* randomizer draws and the same sequence of commands have returned the same
\* result from the last command and have the same playfield, active piece,
\* lookahead queue, hold slot and used-hold flag.
C17_Deterministic ==
    twin.game.rng.drawn = rng.drawn
        => /\ twin.last = last
           /\ Observable(twin.game) = Observable(Game)

\* two instances with different StdRng states and the same draws, after a
\* piece was locked and the next one held
C17_Witness ==
    /\ twin.game.rng.rng # rng.rng
    /\ twin.game.rng.drawn = rng.drawn
    /\ locks = 1
    /\ last.cmd = "hold_piece"
    /\ last.ret = "true"
    /\ ~game_over


\* every occupied cell of the piece is a black cell of the grid
Free(fill_state, piece) ==
    \A c \in Cells(piece) :
        /\ c[1] \in 0..(PLAYFIELD_WIDTH - 1)
        /\ c[2] \in 0..(TRUE_PLAYFIELD_HEIGHT - 1)
        /\ fill_state[c[2]][c[1]] = BLACK

\* rows 19 to 21 of the grid hold no tile
SpawnAreaEmpty(fill_state) ==
    \A y \in (PLAYFIELD_HEIGHT - 1)..(PLAYFIELD_HEIGHT + 1) :
        \A x \in 0..(PLAYFIELD_WIDTH - 1) : fill_state[y][x] = BLACK

\* C18: spawn_new_piece makes active the piece handed in, in rotation 0, at
\* column 4 (size 2) or 3 (sizes 3 and 4) and row 19; a piece of size 2 or 3
\* is one row further down if that pose is free, the size-4 piece never; the
\* call returns true exactly when the resulting pose is free, and changes
\* nothing else.  On an empty spawn area the piece is at (4,20) for O, at
\* (3,19) for I and at (3,20) for the other kinds.
C18_SpawnPlacement ==
    [][(last'.cmd = "spawn_new_piece" /\ steps' # steps)
          => LET kind == last'.value
                 sz == pieces[kind].states[0].matrix.size
                 at(row) == [piece_data |-> kind, rotation |-> 0,
                             position |-> Vec2I8(IF sz = 2 THEN 4 ELSE 3, row)]
                 lowered == sz \in {2, 3} /\ Free(playfield, at(PLAYFIELD_HEIGHT))
             IN  /\ active_piece' = IF lowered THEN at(PLAYFIELD_HEIGHT)
                                    ELSE at(PLAYFIELD_HEIGHT - 1)
                 /\ (last'.ret = "true") <=> Free(playfield, active_piece')
                 /\ <<playfield, next_pieces, held_piece, used_hold, rng,
                      panicked>>' =
                    <<playfield, next_pieces, held_piece, used_hold, rng,
                      panicked>>
                 /\ SpawnAreaEmpty(playfield)
                       => active_piece'.position =
                             CASE kind = 3 -> Vec2I8(4, 20)
                               [] kind = 0 -> Vec2I8(3, 19)
                               [] OTHER -> Vec2I8(3, 20)]_vars

\* a T piece was spawned onto a tile at (4,19), moved down to a free pose,
\* and the call returned true
C18_Witness ==
    /\ last.cmd = "spawn_new_piece"
    /\ last.ret = "true"
    /\ last.value = 5
    /\ playfield[PLAYFIELD_HEIGHT - 1][4] # BLACK
    /\ active_piece.position = Vec2I8(3, PLAYFIELD_HEIGHT)


\* C19: in every state reachable through the commands from Game::new, the
\* states after a game-over result included, the active piece has four
\* occupied cells, all of them inside the grid (0 <= x < 10, 0 <= y < 40),
\* and locking it would paint each of the four in the piece's colour.
C19_ActivePieceInGrid ==
    /\ Cardinality(Cells(active_piece)) = 4
    /\ \A c \in Cells(active_piece) :
          /\ c[1] \in 0..(PLAYFIELD_WIDTH - 1)
          /\ c[2] \in 0..(TRUE_PLAYFIELD_HEIGHT - 1)
    /\ LET locked == copy_in_piece(playfield, active_piece)
       IN  \A c \in Cells(active_piece) :
               locked[c[2]][c[1]] = color(active_piece.piece_data)

\* a piece at a negative position, its cells touching the left wall
C19_Witness ==
    /\ active_piece.position.x < 0
    /\ \E c \in Cells(active_piece) : c[1] = 0
    /\ ~game_over


\* C20: has_overlap returns true exactly when some set cell (x, y) of the
\* piece's matrix has px + x outside [0, 10), or py + y outside [0, 40), or
\* a tile of the playfield at (px + x, py + y), for every position (px, py)
\* of the i8 range: the cast to usize and the wrapping addition agree with
\* a signed bounds check.
C20_OverlapIsSignedCheck ==
    last.cmd = "has_overlap"
        => LET px == active_piece.position.x
               py == active_piece.position.y
               mat == matrix(active_piece)
           IN  (last.ret = "true") <=>
                   \E x \in 0..3 : \E y \in 0..3 :
                       /\ mat[x][y]
                       /\ \/ px + x < 0
                          \/ px + x >= PLAYFIELD_WIDTH
                          \/ py + y < 0
                          \/ py + y >= TRUE_PLAYFIELD_HEIGHT
                          \/ playfield[py + y][px + x] # BLACK

\* has_overlap returned false for a piece at a negative column: the sums
\* wrapped around into the grid
C20_Witness ==
    /\ last.cmd = "has_overlap"
    /\ last.ret = "false"
    /\ active_piece.position.x < 0


\* C21: has_tile(x, y) is true only for a coordinate that is in range and
\* whose stored colour is not black; for every coordinate outside the grid
\* it is false.
C21_HasTileInRangeOnly ==
    last.cmd = "has_tile"
        => LET x == last.value[1]
               y == last.value[2]
           IN  (last.ret = "true") <=>
                   /\ UsizeLess(x, PLAYFIELD_WIDTH)
                   /\ UsizeLess(y, TRUE_PLAYFIELD_HEIGHT)
                   /\ playfield[UsizeIndex(y)][UsizeIndex(x)] # BLACK


\* the commands that move or rotate the active piece
MovementCommands == {"move_left", "move_right", "move_down", "quick_drop",
                     "rotate_left", "rotate_right"}

\* C22: a movement or rotation command, whether it succeeds or fails,
\* leaves the playfield cells, the lookahead queue, the hold slot, the
\* used-hold flag, the randomizer with its bag and the kind of the active
\* piece as they were.
C22_MovementFrame ==
    [][(last'.cmd \in MovementCommands /\ steps' # steps)
          => /\ <<playfield, next_pieces, held_piece, used_hold, rng>>' =
                <<playfield, next_pieces, held_piece, used_hold, rng>>
             /\ active_piece'.piece_data = active_piece.piece_data]_vars

\* with a piece in the hold slot, the active piece was dropped and a further
\* move_down failed
C22_Witness ==
    /\ last.cmd = "move_down"
    /\ last.ret = "false"
    /\ held_piece # None
    /\ used_hold
    /\ locks = 0
    /\ ~Overlaps


\* C23: lock_down_piece sets exactly the grid cells covered by the matrix
\* of the piece's rotation at its position to the piece's colour and leaves
\* every other cell of the playfield, and the rest of the game, unchanged.
C23_LockStampsCells ==
    [][(last'.cmd = "lock_down_piece" /\ steps' # steps)
          => /\ \A y \in 0..(TRUE_PLAYFIELD_HEIGHT - 1) :
                \A x \in 0..(PLAYFIELD_WIDTH - 1) :
                    playfield'[y][x] =
                        IF <<x, y>> \in Cells(active_piece)
                        THEN color(active_piece.piece_data)
                        ELSE playfield[y][x]
             /\ <<active_piece, next_pieces, held_piece, used_hold, rng,
                  panicked>>' =
                <<active_piece, next_pieces, held_piece, used_hold, rng,
                  panicked>>]_vars

\* a piece lying across the tile of row 19 and no other tile was locked:
\* the tile has the piece's colour, the bottom rows are as they were
C23_Witness ==
    /\ last.cmd = "lock_down_piece"
    /\ active_piece.piece_data # 6
    /\ <<4, PLAYFIELD_HEIGHT - 1>> \in Cells(active_piece)
    /\ playfield[PLAYFIELD_HEIGHT - 1][4] = color(active_piece.piece_data)
    /\ playfield[TRUE_PLAYFIELD_HEIGHT - 1] = WallRow(4, 5)


\* C24: once finish_piece_turn has returned None (game over), no later
\* finish_piece_turn returns a cleared-line count.
C24_GameOverTerminal ==
    [][game_over
          => ~(/\ last'.cmd = "finish_piece_turn"
               /\ last'.ret = "some"
               /\ steps' # steps)]_vars


\* the set cells of a 4x4 matrix
SetCells(b) == {c \in (0..3) \X (0..3) : b[c[1]][c[2]]}

\* C25: for each of the 7 kinds of the piece table and each of its 4
\* rotation states, the matrix has exactly 4 set cells, all inside the
\* size x size box (size 4 for I, 2 for O, 3 for the others), and the matrix
\* of state i (i = 1..3) is the matrix of state i - 1 turned 90 degrees
\* clockwise within that box: cell (x, y) goes to (size - 1 - y, x).
C25_PieceTable ==
    \A k \in 0..(PIECE_COUNT - 1) : \A i \in 0..3 :
        LET m == pieces[k].states[i].matrix
            b == bits_to_matrix(m.bits)
        IN  /\ m.size = CASE k = 0 -> 4 [] k = 3 -> 2 [] OTHER -> 3
            /\ Cardinality(SetCells(b)) = 4
            /\ \A c \in SetCells(b) : c[1] < m.size /\ c[2] < m.size
            /\ i >= 1 =>
                  LET p == bits_to_matrix(pieces[k].states[i - 1].matrix.bits)
                  IN  \A x \in 0..(m.size - 1) : \A y \in 0..(m.size - 1) :
                          b[m.size - 1 - y][x] = p[x][y]

\* a J piece in rotation state 3 was locked inside the grid: four cells of
\* the playfield have its colour
C25_Witness ==
    /\ last.cmd = "lock_down_piece"
    /\ active_piece.piece_data = 1
    /\ active_piece.rotation = 3
    /\ Cardinality({c \in (0..(PLAYFIELD_WIDTH - 1))
                            \X (0..(TRUE_PLAYFIELD_HEIGHT - 1)) :
                       playfield[c[2]][c[1]] = color(1)}) = 4


\* C26: rotate_right turns every matrix of size 2, 3 or 4 by 90 degrees
\* clockwise within its size x size box: the result has the same size and
\* the same number of set cells, cell (x, y) of the argument is cell
\* (size - 1 - y, x) of the result, and four applications give the matrix
\* started from.
C26_RotateRightExact ==
    last.cmd = "rotate_right"
        => LET sz == last.value.prev.size
               p == bits_to_matrix(last.value.prev.bits)
               c == bits_to_matrix(last.value.cur.bits)
           IN  /\ last.value.cur.size = sz
               /\ Cardinality(SetCells(c)) = Cardinality(SetCells(p))
               /\ \A x \in 0..(sz - 1) : \A y \in 0..(sz - 1) :
                      c[sz - 1 - y][x] = p[x][y]
               /\ last.value.n = 4 => last.value.cur = last.value.base


\* C27: for the O piece in a pose without overlap, rotate_left and
\* rotate_right return true, step the rotation index by one (down or up,
\* modulo 4) and change neither the position, nor the set of grid cells the
\* piece covers, nor anything else of the game.
C27_ORotates ==
    [][(/\ last'.cmd \in {"rotate_left", "rotate_right"}
        /\ steps' # steps
        /\ active_piece.piece_data = 3
        /\ ~Overlaps)
          => /\ last'.ret = "true"
             /\ active_piece'.rotation =
                   (active_piece.rotation
                       + IF last'.cmd = "rotate_left" THEN 3 ELSE 1) % 4
             /\ active_piece'.position = active_piece.position
             /\ active_piece'.piece_data = 3
             /\ Cells(active_piece') = Cells(active_piece)
             /\ <<playfield, next_pieces, held_piece, used_hold, rng,
                  panicked>>' =
                <<playfield, next_pieces, held_piece, used_hold, rng,
                  panicked>>]_vars

\* an O piece lying on the floor was rotated left
C27_Witness ==
    /\ last.cmd = "rotate_left"
    /\ last.ret = "true"
    /\ active_piece.piece_data = 3
    /\ active_piece.rotation = 3
    /\ active_piece.position.y = TRUE_PLAYFIELD_HEIGHT - 2
    /\ ~game_over


\* C28: bag_left is between 0 and 7 in every state of the RandomGenerator;
\* once a refill has happened the bag is a permutation of the kinds 0..6,
\* the draws since the last refill are its entries from index 6 downwards, one
\* per draw, and a refill happens only when all 7 have been handed out.
C28_BagHandedOut ==
    LET n == Len(rng.drawn)
    IN  /\ rng.bag_left \in 0..PIECE_COUNT
        /\ n > 0 =>
              /\ {rng.bag[i] : i \in 0..(PIECE_COUNT - 1)} =
                    0..(PIECE_COUNT - 1)
              /\ rng.bag_left = (PIECE_COUNT - 1) - ((n - 1) % PIECE_COUNT)
              /\ \A j \in 0..((PIECE_COUNT - 1) - rng.bag_left) :
                    rng.drawn[n - j] = rng.bag[rng.bag_left + j]

\* two draws after the second refill: entries 6 and 5 of the new bag have
\* been handed out
C28_Witness ==
    /\ Len(rng.drawn) = PIECE_COUNT + 2
    /\ rng.bag_left = 5
    /\ rng.drawn[PIECE_COUNT + 1] = rng.bag[6]
    /\ rng.drawn[PIECE_COUNT + 2] = rng.bag[5]


\* C29: Game::new yields an all-empty playfield, an empty hold slot, a
\* cleared used-hold flag, the first draw of the randomizer as the active
\* piece in its spawn pose ((4,20) for O, (3,19) for I, (3,20) otherwise,
\* rotation 0) and the draws 2..9, in draw order, as the lookahead queue;
\* the active piece and the first 6 queue entries are the 7 kinds.
C29_NewGame ==
    steps = 0
        => /\ \A y \in 0..(TRUE_PLAYFIELD_HEIGHT - 1) :
              \A x \in 0..(PLAYFIELD_WIDTH - 1) : playfield[y][x] = BLACK
           /\ held_piece = None
           /\ used_hold = FALSE
           /\ Len(rng.drawn) = NEXT_SIZE + 1
           /\ active_piece =
                 [piece_data |-> rng.drawn[1], rotation |-> 0,
                  position |-> CASE rng.drawn[1] = 3 -> Vec2I8(4, 20)
                                 [] rng.drawn[1] = 0 -> Vec2I8(3, 19)
                                 [] OTHER -> Vec2I8(3, 20)]
           /\ next_pieces = SubSeq(rng.drawn, 2, NEXT_SIZE + 1)
           /\ {active_piece.piece_data} \cup {next_pieces[i] : i \in 1..6} =
                 0..(PIECE_COUNT - 1)

\* a new game whose queue ends with two pieces of the second bag, the first
\* of them of the kind of the active piece
C29_Witness ==
    /\ steps = 0
    /\ Len(next_pieces) = NEXT_SIZE
    /\ next_pieces[7] = active_piece.piece_data
    /\ next_pieces[7] = rng.bag[6]
    /\ next_pieces[8] = rng.bag[5]


\* C30: no piece colour is black or white, and in every reachable state
\* each cell of the playfield is black or holds the colour of one of the 7
\* kinds: the white of get_tile's out-of-bounds answer is never stored, and
\* a cell written by a lock is occupied.
C30_NoWhiteStored ==
    /\ \A k \in 0..(PIECE_COUNT - 1) : ~is_black(color(k)) /\ color(k) # WHITE
    /\ \A y \in 0..(TRUE_PLAYFIELD_HEIGHT - 1) :
       \A x \in 0..(PLAYFIELD_WIDTH - 1) :
           playfield[y][x] \in
               {BLACK} \cup {color(k) : k \in 0..(PIECE_COUNT - 1)}

\* the first lock completed a line that was cleared, and a cell of the
\* locked piece is left in the bottom row
C30_Witness ==
    /\ last.cmd = "finish_piece_turn"
    /\ last.ret = "some"
    /\ last.value >= 1
    /\ locks = 1
    /\ rng.drawn[1] \notin {5, 6}
    /\ \E x \in 0..(PLAYFIELD_WIDTH - 1) :
          playfield[TRUE_PLAYFIELD_HEIGHT - 1][x] = color(rng.drawn[1])


\* C31: the queue is first-in-first-out with respect to the randomizer.  A
\* step that draws (a finish_piece_turn, or a hold_piece that found the slot
\* empty) draws exactly once; the piece it brings into play is the oldest
\* draw that had not left the queue, the p-th piece to leave being draw
\* number p + 1 (the first draw is the first active piece); the remaining
\* NEXT_SIZE - 1 entries move up in order and the fresh draw goes to the
\* back.  A step that does not draw leaves the queue as it is.
C31_QueueFifo ==
    [][LET n == Len(rng.drawn)
           left == n - NEXT_SIZE - 1
       IN  IF rng'.drawn # rng.drawn
           THEN /\ Len(rng'.drawn) = n + 1
                /\ SubSeq(rng'.drawn, 1, n) = rng.drawn
                /\ active_piece'.piece_data = rng.drawn[left + 2]
                /\ active_piece'.piece_data = Head(next_pieces)
                /\ next_pieces' = Append(Tail(next_pieces), rng'.drawn[n + 1])
                /\ next_pieces' = SubSeq(rng'.drawn, left + 3, n + 1)
           ELSE next_pieces' = next_pieces]_vars

\* three pieces have left the queue, one by a hold_piece and two by
\* finish_piece_turn, and they were three different kinds
C31_Witness ==
    /\ ~game_over
    /\ holds >= 1
    /\ locks = 2
    /\ Len(rng.drawn) = NEXT_SIZE + 4
    /\ Cardinality({rng.drawn[i] : i \in 2..4}) = 3
    /\ active_piece.piece_data = rng.drawn[4]


\* the number of occupied cells of a grid
Occupied(fill_state) ==
    Cardinality({c \in (0..(TRUE_PLAYFIELD_HEIGHT - 1))
                         \X (0..(PLAYFIELD_WIDTH - 1)) :
                    fill_state[c[1]][c[2]] # BLACK})

\* the number of lines a finish_piece_turn issued now clears: what its
\* clear_completed_lines returns on the grid its lock_down_piece leaves
LinesCleared ==
    Playfield_clear_completed_lines(lock_down_piece(Game).playfield).cnt

\* C32: a finish_piece_turn called while the active piece does not overlap
\* the playfield changes the number of occupied cells by exactly 4 - 10 * c,
\* c being the number of lines the call clears (the count it returns when it
\* returns one).
C32_CellBalance ==
    [][(last'.cmd = "finish_piece_turn" /\ ~Overlaps)
          => /\ Occupied(playfield') =
                    Occupied(playfield) + 4 - 10 * LinesCleared
             /\ last'.ret = "some" => last'.value = LinesCleared]_vars

\* a finish_piece_turn has locked a piece dropped from its spawn pose and
\* cleared two lines at once, leaving fewer cells than there were
C32_Witness ==
    /\ ~game_over
    /\ steps = 2
    /\ last.cmd = "finish_piece_turn"
    /\ last.ret = "some"
    /\ last.value = 2
    /\ Occupied(playfield) = 0


\* C33: after Game::new and after every command no row of the playfield is
\* completely full, so that a clear_completed_lines called now would return
\* 0 and leave the grid as it is.
C33_NoFullRow ==
    /\ FullRows(playfield) = {}
    /\ Playfield_clear_completed_lines(playfield) =
           [fill_state |-> playfield, cnt |-> 0]

\* a finish_piece_turn has just cleared a line out of a grid that keeps
\* tiles in other rows
C33_Witness ==
    /\ ~game_over
    /\ last.cmd = "finish_piece_turn"
    /\ last.ret = "some"
    /\ last.value >= 1
    /\ Occupied(playfield) > 0


\* C34: the cleared-line count finish_piece_turn returns is between 0 and 4,
\* and so is, in every reachable state, the number of lines a
\* finish_piece_turn issued now would clear.
C34_CountAtMostFour ==
    /\ (last.cmd = "finish_piece_turn" /\ last.ret = "some")
          => last.value \in 0..4
    /\ LinesCleared \in 0..4

\* a finish_piece_turn has returned 4: an upright I piece filled the well
\* of four walls, a fifth wall staying behind
C34_Witness ==
    /\ ~game_over
    /\ last.cmd = "finish_piece_turn"
    /\ last.ret = "some"
    /\ last.value = 4
    /\ Occupied(playfield) = PLAYFIELD_WIDTH - 1


\* C35: a rotation that succeeded can be undone in the sense of success:
\* after a rotate_right that returned true a rotate_left issued now returns
\* true, and after a rotate_left that returned true a rotate_right issued
\* now returns true.
C35_RotationUndoable ==
    /\ (last.cmd = "rotate_right" /\ last.ret = "true")
          => rotate_left(Game).ok
    /\ (last.cmd = "rotate_left" /\ last.ret = "true")
          => rotate_right(Game).ok


\* the kick offsets rotate_right tries for a piece, in order
RightKicks(piece) == kick_tests(piece.piece_data, piece.rotation)

\* the kick offsets rotate_left tries for a piece, in order
LeftKicks(piece) ==
    neg_kicks(kick_tests(piece.piece_data,
                         IF piece.rotation = 0 THEN 3 ELSE piece.rotation - 1))

\* the J, L, S, T and Z pieces
JLSTZ == {1, 2, 4, 5, 6}

\* C36: for a J, L, S, T or Z piece in a side state (1 or 3), rotate_right
\* and rotate_left try the same four kick offsets in the same order; that
\* is, the offsets stored for state 1 are the negation of those of state 0
\* and the offsets stored for state 3 the negation of those of state 2.
C36_SideStateKicks ==
    (active_piece.piece_data \in JLSTZ /\ active_piece.rotation \in {1, 3})
        => RightKicks(active_piece) = LeftKicks(active_piece)

\* C37: in the I piece's table the offsets of state 2 are the negation of
\* those of state 0 and the offsets of state 3 the negation of those of
\* state 1: for an I piece, rotate_right out of state 0 tries the offsets
\* rotate_left tries out of state 3, and rotate_right out of state 1 those
\* rotate_left tries out of state 0.
C37_IKicksNegated ==
    active_piece.piece_data = 0
        => /\ kick_tests(0, 2) = neg_kicks(kick_tests(0, 0))
           /\ kick_tests(0, 3) = neg_kicks(kick_tests(0, 1))
           /\ \A r \in {0, 1} :
                 RightKicks([active_piece EXCEPT !.rotation = r]) =
                     LeftKicks([active_piece EXCEPT !.rotation = (r + 3) % 4])


\* C38: once the hold slot holds a piece no command empties it again, and
\* whenever the used-hold flag is set the slot holds a piece.
C38_HoldSlotStaysFilled ==
    [][/\ held_piece # None => held_piece' # None
       /\ used_hold => held_piece # None
       /\ used_hold' => held_piece' # None]_vars

\* the slot was filled by a first hold_piece, a piece was locked, and a
\* second hold_piece swapped: the slot holds the third draw, the first draw
\* is back in play
C38_Witness ==
    /\ ~game_over
    /\ locks = 1
    /\ used_hold
    /\ last.cmd = "hold_piece"
    /\ last.ret = "true"
    /\ held_piece = Some(rng.drawn[3])
    /\ active_piece.piece_data = rng.drawn[1]
    /\ rng.drawn[2] # rng.drawn[3]


\* the length of a window of draws that spans a whole bag wherever it
\* starts: 13
WindowLength == 2 * PIECE_COUNT - 1

\* C39: every WindowLength consecutive draws of next_piece contain all 7
\* kinds, whatever the random choices were (two consecutive occurrences of
\* a kind are at most 12 draws apart).
C39_WindowOfThirteen ==
    \A i \in 1..Len(rng.drawn) :
        i + WindowLength - 1 <= Len(rng.drawn)
            => {rng.drawn[j] : j \in i..(i + WindowLength - 1)} =
                   0..(PIECE_COUNT - 1)

\* the first draw of one bag and the last draw of the next are the same
\* kind: 12 other draws lie between two consecutive occurrences of it, and
\* three windows of 13 draws have been completed
C39_Witness ==
    /\ Len(rng.drawn) = 15
    /\ rng.drawn[1] = rng.drawn[14]
    /\ \A j \in 2..13 : rng.drawn[j] # rng.drawn[1]

=============================================================================
